---- MODULE Spec2Model ----
(***************************************************************************)
(* Diary analytics and insight engine of ai-counsel-web (app/page.tsx).    *)
(*                                                                         *)
(* Strings are sequences of UTF-16 code units (what charCodeAt returns).   *)
(* A nullable value is <<>> (null / undefined) or <<v>> (the value v).     *)
(* A Date is a record [y, m, d] of local calendar fields, m zero-based as  *)
(* getMonth() returns it.                                                  *)
(***************************************************************************)
EXTENDS Integers, Sequences, FiniteSets, TLC

VARIABLES
    now,                      \* the wall clock read by new Date()
    uid,                      \* signed-in owner, Null when signed out
    userEmail,                \* displayed account label, "" when signed out
    isGuestUser,              \* whether the signed-in user is anonymous
    guestSessionId,           \* session id of an anonymous user, Null otherwise
    journalDate,              \* selected journal date (date key string)
    reflection,               \* free-text buffer
    localStorage,             \* key string -> nullable value string
    reflectionPromptCount,    \* displayed used count
    reflectionPromptMessage,  \* displayed budget message
    lastOp,                   \* history: outcome of the last handler
    injections,               \* history: prompts injected so far, per date
    journalList,              \* materialised journal records, in snapshot order
    childList,                \* materialised child records, in snapshot order
    weekly,                   \* weeklyPoints / weeklyStats memo
    childWeekly,              \* childWeeklyPoints / childWeeklyStats memo
    pc,                       \* position inside diaryInsights
    valid,                    \* diaryInsights: records with a finite mood
    dateSet,                  \* diaryInsights: dates of the valid records
    streak,                   \* diaryInsights: running streak counter
    insights,                 \* diaryInsights memo
    trendIn,                  \* argument handed to trendLabel
    trendOut,                 \* label returned by trendLabel
    diaryAnalysisMonth,       \* month shown by the diary calendar (a Date)
    childAnalysisMonth,       \* month shown by the child calendar (a Date)
    calendar,                 \* diaryMonthDays memo
    childCalendar,            \* childMonthDays memo
    fortune,                  \* dailyFortune memo
    fortuneLog,               \* history: every guidance selection made so far
    hashPc,                   \* position inside hashText
    hashValue,                \* hashText: the argument
    hashI,                    \* hashText: the loop index i
    hash,                     \* hashText: the running hash
    hashWide,                 \* hashText: the last hash * 31 + code, before >>> 0
    moodsIn,                  \* arguments handed to scoreFromMood
    scoresOut,                \* the scores returned for them
    valuesIn,                 \* argument handed to averageMood
    averageOut,               \* the value returned for it
    diaryAnalysisRange,       \* "weekly", "monthly" or "custom"
    diaryAnalysisStartDate,   \* custom range: the start input (date key or "")
    diaryAnalysisEndDate,     \* custom range: the end input (date key or "")
    healthSettings,           \* [enabled, medicationEnabled, consented]
    analysis,                 \* diaryAnalysisBounds / Entries / EntryText memo
    journals,                 \* the store's journals collection: id -> document
    editingJournalId,         \* id of the record being edited, Null outside edit mode
    sliderMood,               \* the form's mood slider (the state named mood)
    saveStatus,               \* outcome shown by the journal form
    requests,                 \* store calls awaited by saveJournal / deleteJournal
    tabs                      \* two sessions on one store: position and count read

vars == <<now, uid, userEmail, journalDate, reflection, localStorage,
          reflectionPromptCount, reflectionPromptMessage, lastOp, injections, journalList,
          childList, weekly, childWeekly, pc, valid, dateSet, streak, insights, trendIn,
          trendOut, diaryAnalysisMonth, childAnalysisMonth, calendar, childCalendar,
          fortune, fortuneLog, hashPc, hashValue, hashI, hash, hashWide, moodsIn,
          scoresOut, valuesIn, averageOut, diaryAnalysisRange, diaryAnalysisStartDate,
          diaryAnalysisEndDate, healthSettings, analysis, journals, editingJournalId,
          sliderMood, saveStatus, requests, tabs, isGuestUser, guestSessionId>>

sessionVars == <<uid, userEmail, isGuestUser, guestSessionId, journalDate, reflection, localStorage, reflectionPromptCount,
                 reflectionPromptMessage, lastOp, injections>>
statsVars == <<weekly, childWeekly>>
insightVars == <<pc, valid, dateSet, streak, insights>>
trendVars == <<trendIn, trendOut>>
calendarVars == <<diaryAnalysisMonth, childAnalysisMonth, calendar, childCalendar>>
fortuneVars == <<fortune, fortuneLog>>
hashVars == <<hashPc, hashValue, hashI, hash, hashWide>>
normVars == <<moodsIn, scoresOut, valuesIn, averageOut>>
digestVars == <<diaryAnalysisRange, diaryAnalysisStartDate, diaryAnalysisEndDate,
                healthSettings, analysis>>
formVars == <<journals, editingJournalId, sliderMood, saveStatus, requests>>
raceVars == <<tabs>>

-----------------------------------------------------------------------------
(* Nullable values and strings *)

Null == <<>>
Some(v) == <<v>>
IsNull(x) == x = Null
Val(x) == x[1]

Min2(a, b) == IF a <= b THEN a ELSE b
Max2(a, b) == IF a >= b THEN a ELSE b

\* code units used below
Ch == [zero |-> 48, dash |-> 45, slash |-> 47, colon |-> 58, plus |-> 43,
       newline |-> 10, space |-> 32, tab |-> 9, cr |-> 13, a |-> 97,
       prompt |-> 57344]

RECURSIVE Digits(_)
\* String(n) for an integer n >= 0: its decimal digits
Digits(n) == IF n < 10 THEN <<Ch.zero + n>> ELSE Digits(n \div 10) \o <<Ch.zero + (n % 10)>>

\* String(n) for any integer n
NumToString(n) == IF n < 0 THEN <<Ch.dash>> \o Digits(-n) ELSE Digits(n)

\* a < b for JS strings: comparison by code units, a proper prefix is smaller
RECURSIVE StrLess(_, _)
StrLess(a, b) ==
    IF b = <<>> THEN FALSE
    ELSE IF a = <<>> THEN TRUE
    ELSE IF Head(a) # Head(b) THEN Head(a) < Head(b)
    ELSE StrLess(Tail(a), Tail(b))

StrLeq(a, b) == a = b \/ StrLess(a, b)

\* s.includes(sub)
Includes(s, sub) ==
    \E i \in 0..(Len(s) - Len(sub)) : SubSeq(s, i + 1, i + Len(sub)) = sub

IsSpaceCh(c) == c \in {Ch.newline, Ch.space, Ch.tab, Ch.cr}

RECURSIVE TrimStart(_)
TrimStart(s) == IF s # <<>> /\ IsSpaceCh(Head(s)) THEN TrimStart(Tail(s)) ELSE s

RECURSIVE TrimEnd(_)
TrimEnd(s) ==
    IF s # <<>> /\ IsSpaceCh(s[Len(s)]) THEN TrimEnd(SubSeq(s, 1, Len(s) - 1)) ELSE s

\* s.trim()
Trim(s) == TrimEnd(TrimStart(s))

\* Math.round(n / d) for integers n and d > 0: halves round towards +Infinity
RoundDiv(n, d) == (2 * n + d) \div (2 * d)

-----------------------------------------------------------------------------
(* Date utilities *)

IsLeap(y) == (y % 4 = 0 /\ y % 100 # 0) \/ y % 400 = 0

DaysInMonth_NoLeap(y, m) ==
    IF m = 1 THEN 28
    ELSE IF m \in {3, 5, 8, 10} THEN 30
    ELSE 31

DaysInMonth(y, m) ==
    IF m = 1 THEN (IF IsLeap(y) THEN 29 ELSE 28)
    ELSE IF m \in {3, 5, 8, 10} THEN 30
    ELSE 31

\* the Date built from calendar fields that may overflow their range
RECURSIVE MakeDate(_, _, _)
MakeDate(y, m, d) ==
    IF m > 11 THEN MakeDate(y + 1, m - 12, d)
    ELSE IF m < 0 THEN MakeDate(y - 1, m + 12, d)
    ELSE IF d < 1 THEN
        LET py == IF m = 0 THEN y - 1 ELSE y
            pm == IF m = 0 THEN 11 ELSE m - 1
        IN MakeDate(py, pm, d + DaysInMonth(py, pm))
    ELSE IF d > DaysInMonth(y, m) THEN MakeDate(y, m + 1, d - DaysInMonth(y, m))
    ELSE [y |-> y, m |-> m, d |-> d]

\* const day = new Date(); day.setDate(day.getDate() - back)
DayBack(base, back) == MakeDate(base.y, base.m, base.d - back)

pad2_Unpadded(value) == NumToString(value)

\* String(value).padStart(2, "0")
pad2(value) ==
    LET s == NumToString(value)
    IN IF Len(s) < 2 THEN <<Ch.zero>> \o s ELSE s

dateInputValue(date) ==
    NumToString(date.y) \o <<Ch.dash>> \o pad2(date.m + 1) \o <<Ch.dash>> \o pad2(date.d)

addDays(base, offset) == MakeDate(base.y, base.m, base.d + offset)

todayInputValue == dateInputValue(now)

RECURSIVE DaysBeforeMonth(_, _)
\* days of the year y that lie before its month m
DaysBeforeMonth(y, m) ==
    IF m = 0 THEN 0 ELSE DaysBeforeMonth(y, m - 1) + DaysInMonth(y, m - 1)

\* days from 1970-01-01 to January 1 of the year y
DaysBeforeYear(y) ==
    365 * (y - 1970) + (y - 1969) \div 4 - (y - 1901) \div 100 + (y - 1601) \div 400

getDay_MondayFirst(date) ==
    (3 + DaysBeforeYear(date.y) + DaysBeforeMonth(date.y, date.m) + date.d - 1) % 7

\* date.getDay(): 0 is Sunday; 1970-01-01 was a Thursday
getDay(date) ==
    (4 + DaysBeforeYear(date.y) + DaysBeforeMonth(date.y, date.m) + date.d - 1) % 7

\* the M/D label of a chart point
dayLabel(date) == NumToString(date.m + 1) \o <<Ch.slash>> \o NumToString(date.d)

-----------------------------------------------------------------------------
(* Scalar normalizer *)

clampMood(value) == Max2(1, Min2(10, value))

scoreFromMood_Floor(mood) == (100 * (Max2(1, Min2(10, mood)) - 1)) \div 9

scoreFromMood_Unclamped(mood) == RoundDiv(100 * (mood - 1), 9)

\* Math.round(((clamp - 1) / 9) * 100); 100 * (clamp - 1) / 9 is never a half
scoreFromMood(mood) == RoundDiv(100 * (Max2(1, Min2(10, mood)) - 1), 9)

trendLabel_GE(delta) ==
    IF delta >= 5 THEN "improving"
    ELSE IF delta <= -5 THEN "declining"
    ELSE "stable"

\* the labels stand for the source's display strings
trendLabel(delta) ==
    IF delta > 5 THEN "improving"
    ELSE IF delta < -5 THEN "declining"
    ELSE "stable"

RECURSIVE SumClamped(_)
\* values.reduce((sum, value) => sum + clampMood(value), 0)
SumClamped(values) ==
    IF values = <<>> THEN 0 ELSE clampMood(Head(values)) + SumClamped(Tail(values))

RECURSIVE SumOf(_)
SumOf(values) == IF values = <<>> THEN 0 ELSE Head(values) + SumOf(Tail(values))

averageMood_Unclamped(values) ==
    IF Len(values) = 0 THEN 5 ELSE RoundDiv(SumOf(values), Len(values))

\* the quotient handed to Math.round is a half only when it is exactly one
averageMood(values) ==
    IF Len(values) = 0 THEN 5 ELSE RoundDiv(SumClamped(values), Len(values))

moodHeatTone_Above(value) ==
    IF IsNull(value) THEN "none"
    ELSE IF Val(value) > 7 THEN "good"
    ELSE IF Val(value) > 4 THEN "mid"
    ELSE "low"

\* value is Null or Some(number)
moodHeatTone(value) ==
    IF IsNull(value) THEN "none"
    ELSE IF Val(value) >= 7 THEN "good"
    ELSE IF Val(value) >= 4 THEN "mid"
    ELSE "low"

-----------------------------------------------------------------------------
(* Stable hash.  A number below 2^32 is kept as its two 16-bit halves         *)
(* [hi, lo]; the exact value of hash * 31 + code, before >>> 0 wraps it, is   *)
(* kept as [top, hi, lo] with top the bits from 2^32 up.                      *)

\* 2^16
Half == 65536

HashStepWide_Times33(h, code) ==
    LET lo == h.lo * 33 + code
        hi == h.hi * 33 + lo \div Half
    IN [top |-> hi \div Half, hi |-> hi % Half, lo |-> lo % Half]

\* hash * 31 + value.charCodeAt(i)
HashStepWide(h, code) ==
    LET lo == h.lo * 31 + code
        hi == h.hi * 31 + lo \div Half
    IN [top |-> hi \div Half, hi |-> hi % Half, lo |-> lo % Half]

\* wide >>> 0: the value modulo 2^32
ToUint32(wide) == [hi |-> wide.hi, lo |-> wide.lo]

RECURSIVE HashFrom(_, _)
\* the loop of hashText from the running hash h over the rest of the text
HashFrom(h, rest) ==
    IF rest = <<>> THEN h
    ELSE HashFrom(ToUint32(HashStepWide(h, Head(rest))), Tail(rest))

hashText(value) == HashFrom([hi |-> 0, lo |-> 0], value)

\* hash % n for 0 < n < 2^15
HashMod(h, n) == ((h.hi % n) * (Half % n) + (h.lo % n)) % n

-----------------------------------------------------------------------------
(* Deterministic picker: the daily guidance *)

\* the catalog; the fortune, mission and prompt texts are kept by their
\* length in code units
fortuneTemplates ==
    << [id |-> "energy-reset", tone |-> "energy", fortune |-> 46, mission |-> 39,
        prompt |-> 29],
       [id |-> "focus-window", tone |-> "focus", fortune |-> 45, mission |-> 30,
        prompt |-> 27],
       [id |-> "relationship-soft", tone |-> "relationship", fortune |-> 46,
        mission |-> 31, prompt |-> 27],
       [id |-> "confidence-step", tone |-> "confidence", fortune |-> 41, mission |-> 27,
        prompt |-> 26],
       [id |-> "energy-balance", tone |-> "energy", fortune |-> 46, mission |-> 30,
        prompt |-> 20],
       [id |-> "focus-clean", tone |-> "focus", fortune |-> 39, mission |-> 27,
        prompt |-> 25],
       [id |-> "relationship-repair", tone |-> "relationship", fortune |-> 40,
        mission |-> 33, prompt |-> 22],
       [id |-> "confidence-ground", tone |-> "confidence", fortune |-> 45,
        mission |-> 32, prompt |-> 22] >>

\* "guest"
Guest == <<103, 117, 101, 115, 116>>

pickDailyFortune_ByDateOnly(date, userSeed) ==
    LET seed == date \o <<Ch.colon>> \o Guest
        idx == HashMod(hashText(seed), Len(fortuneTemplates))
    IN fortuneTemplates[idx + 1]

pickDailyFortune_NoFallback(date, userSeed) ==
    LET seed == date \o <<Ch.colon>> \o userSeed
        idx == HashMod(hashText(seed), Len(fortuneTemplates))
    IN fortuneTemplates[idx + 1]

\* userSeed is a string; userSeed || "guest" replaces the empty one
pickDailyFortune(date, userSeed) ==
    LET seed == date \o <<Ch.colon>> \o (IF userSeed # <<>> THEN userSeed ELSE Guest)
        idx == HashMod(hashText(seed), Len(fortuneTemplates))
    IN fortuneTemplates[idx + 1]

-----------------------------------------------------------------------------
(* Aggregation engine: the trailing 7-day window *)

RECURSIVE FirstByDate_LastWins(_, _)
FirstByDate_LastWins(list, key) ==
    IF list = <<>> THEN Null
    ELSE IF list[Len(list)].date = key THEN Some(list[Len(list)])
    ELSE FirstByDate_LastWins(SubSeq(list, 1, Len(list) - 1), key)

\* byDate.get(key) after the loop that keeps the first entry of every date
RECURSIVE FirstByDate(_, _)
FirstByDate(list, key) ==
    IF list = <<>> THEN Null
    ELSE IF Head(list).date = key THEN Some(Head(list))
    ELSE FirstByDate(Tail(list), key)

weeklyPoints_EndsYesterday ==
    [k \in 1..7 |->
        LET day == DayBack(now, 8 - k)
            key == dateInputValue(day)
            entry == FirstByDate(journalList, key)
        IN [date |-> key,
            label |-> dayLabel(day),
            mood |-> IF IsNull(entry) THEN Null ELSE Some(Val(entry).mood),
            score |-> IF IsNull(entry) THEN Null ELSE Some(scoreFromMood(Val(entry).mood)),
            hasMedication |-> ~IsNull(entry) /\ ~IsNull(Val(entry).medicationRecord)]]

\* for (let i = 6; i >= 0; i -= 1): the k-th point is the day 7 - k days back
weeklyPoints ==
    [k \in 1..7 |->
        LET day == DayBack(now, 7 - k)
            key == dateInputValue(day)
            entry == FirstByDate(journalList, key)
        IN [date |-> key,
            label |-> dayLabel(day),
            mood |-> IF IsNull(entry) THEN Null ELSE Some(Val(entry).mood),
            score |-> IF IsNull(entry) THEN Null ELSE Some(scoreFromMood(Val(entry).mood)),
            hasMedication |-> ~IsNull(entry) /\ ~IsNull(Val(entry).medicationRecord)]]

childWeeklyPoints ==
    [k \in 1..7 |->
        LET day == DayBack(now, 7 - k)
            key == dateInputValue(day)
            entry == FirstByDate(childList, key)
        IN [date |-> key,
            label |-> dayLabel(day),
            progress |-> IF IsNull(entry) THEN Null ELSE Some(Val(entry).progress),
            score |-> IF IsNull(entry) THEN Null ELSE Some(scoreFromMood(Val(entry).progress))]]

HasScore(p) == ~IsNull(p.score)

\* points.reduce((sum, p) => sum + Number(p.score), 0)
RECURSIVE SumScores(_)
SumScores(points) ==
    IF points = <<>> THEN 0 ELSE Val(Head(points).score) + SumScores(Tail(points))

\* An average is kept as the exact fraction [num, den]; every score sum is an
\* integer below 2^53 and the only halves that reach Math.round are exact
\* binary fractions, so the exact quotient rounds as the double does.
HalfAverage(points) ==
    IF Len(points) > 0 THEN Some([num |-> SumScores(points), den |-> Len(points)]) ELSE Null

\* Math.round(secondAvg - firstAvg) when neither is null, else 0
TrendDelta_NullAsZero(firstAvg, secondAvg) ==
    LET f == IF IsNull(firstAvg) THEN [num |-> 0, den |-> 1] ELSE Val(firstAvg)
        s == IF IsNull(secondAvg) THEN [num |-> 0, den |-> 1] ELSE Val(secondAvg)
    IN RoundDiv(s.num * f.den - f.num * s.den, f.den * s.den)

TrendDelta(firstAvg, secondAvg) ==
    IF ~IsNull(firstAvg) /\ ~IsNull(secondAvg)
    THEN LET f == Val(firstAvg)
             s == Val(secondAvg)
         IN RoundDiv(s.num * f.den - f.num * s.den, f.den * s.den)
    ELSE 0

AverageOf_ZeroWhenEmpty(validPoints) ==
    IF Len(validPoints) > 0
    THEN Some(RoundDiv(SumScores(validPoints), Len(validPoints)))
    ELSE Some(0)

\* valid.length > 0 ? Math.round(sum / valid.length) : null
AverageOf(validPoints) ==
    IF Len(validPoints) > 0
    THEN Some(RoundDiv(SumScores(validPoints), Len(validPoints)))
    ELSE Null

HalfIndex_Ceil(points) == (Len(points) + 1) \div 2

\* Math.floor(points.length / 2)
HalfIndex(points) == Len(points) \div 2

WindowStats(points) ==
    LET validPoints == SelectSeq(points, HasScore)
        half == HalfIndex(points)
        first == SelectSeq(SubSeq(points, 1, half), HasScore)
        second == SelectSeq(SubSeq(points, half + 1, Len(points)), HasScore)
        delta == TrendDelta(HalfAverage(first), HalfAverage(second))
    IN [daysWithEntry |-> Len(validPoints),
        average |-> AverageOf(validPoints),
        delta |-> delta,
        trend |-> trendLabel(delta)]

weeklyStats == WindowStats(weeklyPoints)

childWeeklyStats == WindowStats(childWeeklyPoints)

-----------------------------------------------------------------------------
(* Calendar projector: the month grids of the diary and of the child log *)

\* the entries of the list that carry the date, in list order
Bucket(list, date) ==
    LET On(entry) == entry.date = date
    IN SelectSeq(list, On)

\* map.get(key): Null when the map has no such key
MapGet(map, key) == IF key \in DOMAIN map THEN Some(map[key]) ELSE Null

diaryEntryMetaMap ==
    [date \in {journalList[i].date : i \in 1..Len(journalList)} |->
        LET entries == Bucket(journalList, date)
        IN [hasEntry |-> TRUE,
            avgMood |-> averageMood([i \in 1..Len(entries) |-> entries[i].mood]),
            hasMedication |->
                \E i \in 1..Len(entries) : ~IsNull(entries[i].medicationRecord)]]

childEntryMetaMap ==
    [date \in {childList[i].date : i \in 1..Len(childList)} |->
        LET entries == Bucket(childList, date)
        IN [hasEntry |-> TRUE,
            avgScore |-> averageMood([i \in 1..Len(entries) |-> entries[i].progress])]]

\* date > today on date keys
KeyAfter(date, today) == StrLess(today, date)

\* the grid of diaryMonthDays when diaryAnalysisMonth is the Date shown
diaryMonthDaysOf(shown) ==
    LET year == shown.y
        month == shown.m
        first == MakeDate(year, month, 1)
        totalDays == MakeDate(year, month + 1, 0).d
        leading == getDay(first)
        blank == [date |-> <<>>, day |-> 0, hasEntry |-> FALSE, avgMood |-> Null,
                  hasMedication |-> FALSE, heatTone |-> "none", isFuture |-> FALSE]
        today == todayInputValue
        Cell(day) ==
            LET date == dateInputValue(MakeDate(year, month, day))
                meta == MapGet(diaryEntryMetaMap, date)
                avgMood == IF IsNull(meta) THEN Null ELSE Some(Val(meta).avgMood)
            IN [date |-> date,
                day |-> day,
                hasEntry |-> ~IsNull(meta) /\ Val(meta).hasEntry,
                avgMood |-> avgMood,
                hasMedication |-> ~IsNull(meta) /\ Val(meta).hasMedication,
                heatTone |-> moodHeatTone(avgMood),
                isFuture |-> KeyAfter(date, today)]
    IN [i \in 1..leading |-> blank] \o [day \in 1..totalDays |-> Cell(day)]

\* the grid of childMonthDays when childAnalysisMonth is the Date shown
childMonthDaysOf(shown) ==
    LET year == shown.y
        month == shown.m
        first == MakeDate(year, month, 1)
        totalDays == MakeDate(year, month + 1, 0).d
        leading == getDay(first)
        blank == [date |-> <<>>, day |-> 0, hasEntry |-> FALSE, avgScore |-> Null,
                  heatTone |-> "none", isFuture |-> FALSE]
        today == todayInputValue
        Cell(day) ==
            LET date == dateInputValue(MakeDate(year, month, day))
                meta == MapGet(childEntryMetaMap, date)
                avgScore == IF IsNull(meta) THEN Null ELSE Some(Val(meta).avgScore)
            IN [date |-> date,
                day |-> day,
                hasEntry |-> ~IsNull(meta) /\ Val(meta).hasEntry,
                avgScore |-> avgScore,
                heatTone |-> moodHeatTone(avgScore),
                isFuture |-> KeyAfter(date, today)]
    IN [i \in 1..leading |-> blank] \o [day \in 1..totalDays |-> Cell(day)]

diaryMonthDays == diaryMonthDaysOf(diaryAnalysisMonth)

childMonthDays == childMonthDaysOf(childAnalysisMonth)

-----------------------------------------------------------------------------
(* Digest composer: the analysis window, its records and their text *)

customBounds_Unordered(start, end) == [start |-> start, end |-> end]

\* return start <= end ? { start, end } : { start: end, end: start }
customBounds(start, end) ==
    IF StrLeq(start, end) THEN [start |-> start, end |-> end]
    ELSE [start |-> end, end |-> start]

\* diaryAnalysisBounds for the given range kind, shown month and custom inputs
diaryAnalysisBoundsOf(range, month, startInput, endInput) ==
    IF range = "monthly"
    THEN [start |-> dateInputValue(MakeDate(month.y, month.m, 1)),
          end |-> dateInputValue(MakeDate(month.y, month.m + 1, 0))]
    ELSE IF range = "custom"
    THEN LET start == IF startInput # <<>> THEN startInput ELSE todayInputValue
             end == IF endInput # <<>> THEN endInput ELSE start
         IN customBounds(start, end)
    ELSE [start |-> dateInputValue(addDays(now, -6)), end |-> todayInputValue]

\* journalList.filter((entry) => entry.date >= start && entry.date <= end)
diaryAnalysisEntriesOf(bounds) ==
    LET InWindow(entry) == StrLeq(bounds.start, entry.date) /\ StrLeq(entry.date, bounds.end)
    IN SelectSeq(journalList, InWindow)

useMedicationContext_AnyFlag(settings) ==
    settings.enabled \/ settings.medicationEnabled \/ settings.consented

\* healthSettings.enabled && healthSettings.medicationEnabled && healthSettings.consented
useMedicationContext(settings) ==
    settings.enabled /\ settings.medicationEnabled /\ settings.consented

\* the fixed texts of a digest line
DigestText ==
    [mood |-> <<32, 124, 32, 44592, 48516, 32>>,
     energy |-> <<47, 49, 48, 32, 124, 32, 50640, 45320, 51648, 32>>,
     relationship |-> <<47, 49, 48, 32, 124, 32, 44288, 44228, 32>>,
     achievement |-> <<47, 49, 48, 32, 124, 32, 49457, 52712, 32>>,
     emotions |-> <<47, 49, 48, 32, 124, 32, 44048, 51221, 32>>,
     comma |-> <<44, 32>>,
     none |-> <<40, 50630, 51020, 41>>,
     meds |-> <<32, 124, 32, 53804, 50557, 52404, 53356, 32>>,
     noRecord |-> <<40, 44592, 47197, 32, 50630, 51020, 41>>,
     missedReason |-> <<32, 47, 32, 45572, 46973, 51060, 50976, 58, 32>>,
     reflection |-> <<32, 124, 32, 49548, 44048, 58, 32>>]

\* the status enum as text
StatusText ==
    [taken |-> <<116, 97, 107, 101, 110>>,
     partial |-> <<112, 97, 114, 116, 105, 97, 108>>,
     skipped |-> <<115, 107, 105, 112, 112, 101, 100>>]

\* parts.join(sep)
RECURSIVE Join(_, _)
Join(parts, sep) ==
    IF parts = <<>> THEN <<>>
    ELSE IF Len(parts) = 1 THEN parts[1]
    ELSE parts[1] \o sep \o Join(Tail(parts), sep)

\* a || b for strings
OrElse(a, b) == IF a # <<>> THEN a ELSE b

\* the meds text of a record; the model's medication records have no times,
\* name or category, so those parts are empty
MedsText(entry) ==
    IF IsNull(entry.medicationRecord) THEN DigestText.noRecord
    ELSE LET record == Val(entry.medicationRecord)
         IN StatusText[record.status]
              \o (IF record.missedReason # <<>>
                  THEN DigestText.missedReason \o record.missedReason
                  ELSE <<>>)

\* the line of one record
DigestLine(entry, settings) ==
    LET base == entry.date
                  \o DigestText.mood \o NumToString(entry.mood)
                  \o DigestText.energy \o NumToString(entry.energy)
                  \o DigestText.relationship \o NumToString(entry.relationship)
                  \o DigestText.achievement \o NumToString(entry.achievement)
                  \o DigestText.emotions
                  \o OrElse(Join(entry.emotions, DigestText.comma), DigestText.none)
        medPart == IF useMedicationContext(settings)
                   THEN DigestText.meds \o MedsText(entry)
                   ELSE <<>>
    IN base \o medPart \o DigestText.reflection
         \o OrElse(entry.reflection, OrElse(entry.text, DigestText.none))

\* diaryAnalysisEntries.map(...).join("\n")
diaryAnalysisEntryTextOf(entries, settings) ==
    Join([i \in 1..Len(entries) |-> DigestLine(entries[i], settings)], <<Ch.newline>>)

\* the three memos for the given inputs
AnalysisOf(range, month, startInput, endInput, settings) ==
    LET bounds == diaryAnalysisBoundsOf(range, month, startInput, endInput)
        entries == diaryAnalysisEntriesOf(bounds)
    IN [bounds |-> bounds,
        entries |-> entries,
        text |-> diaryAnalysisEntryTextOf(entries, settings)]

\* months the calendars are moved to, counted from the current month
MonthOffsets == {-1, 0, 1}

MonthsFromNow(date) == (date.y * 12 + date.m) - (now.y * 12 + now.m)

\* the "previous month" / "next month" buttons of the diary calendar:
\* setDiaryAnalysisMonth((prev) => new Date(prev.getFullYear(),
\* prev.getMonth() + step, 1)), and the render that projects the grid again
\* and, where the analysis memos are kept, evaluates them for the new month
MoveDiaryMonth(step) ==
    LET next == MakeDate(diaryAnalysisMonth.y, diaryAnalysisMonth.m + step, 1)
    IN /\ MonthsFromNow(next) \in MonthOffsets
       /\ diaryAnalysisMonth' = next
       /\ UNCHANGED <<now, sessionVars, journalList, childList, statsVars, insightVars,
                      trendVars, childAnalysisMonth, childCalendar, fortuneVars, hashVars,
                      normVars, formVars, raceVars, diaryAnalysisRange,
                      diaryAnalysisStartDate, diaryAnalysisEndDate, healthSettings>>
       /\ calendar' = Some(diaryMonthDaysOf(next))
       /\ analysis' = IF IsNull(analysis) THEN Null
                      ELSE Some(AnalysisOf(diaryAnalysisRange, next, diaryAnalysisStartDate,
                                           diaryAnalysisEndDate, healthSettings))

\* the same buttons of the child calendar
MoveChildMonth(step) ==
    LET next == MakeDate(childAnalysisMonth.y, childAnalysisMonth.m + step, 1)
    IN /\ MonthsFromNow(next) \in MonthOffsets
       /\ childAnalysisMonth' = next
       /\ UNCHANGED <<now, sessionVars, journalList, childList, statsVars, insightVars,
                      trendVars, diaryAnalysisMonth, calendar, fortuneVars, hashVars,
                      normVars, digestVars, formVars, raceVars>>
       /\ childCalendar' = Some(childMonthDaysOf(next))

AnalysisRanges == {"weekly", "monthly", "custom"}

\* the range selector's onClick
SetAnalysisRange(range) ==
    /\ diaryAnalysisRange' = range
    /\ analysis' = Some(AnalysisOf(range, diaryAnalysisMonth, diaryAnalysisStartDate,
                                   diaryAnalysisEndDate, healthSettings))
    /\ UNCHANGED <<now, sessionVars, journalList, childList, statsVars, insightVars,
                   trendVars, calendarVars, fortuneVars, hashVars, normVars, formVars,
                   raceVars, diaryAnalysisStartDate, diaryAnalysisEndDate, healthSettings>>

\* the start date input's onChange
SetAnalysisStartDate(text) ==
    /\ diaryAnalysisStartDate' = text
    /\ analysis' = Some(AnalysisOf(diaryAnalysisRange, diaryAnalysisMonth, text,
                                   diaryAnalysisEndDate, healthSettings))
    /\ UNCHANGED <<now, sessionVars, journalList, childList, statsVars, insightVars,
                   trendVars, calendarVars, fortuneVars, hashVars, normVars, formVars,
                   raceVars, diaryAnalysisRange, diaryAnalysisEndDate, healthSettings>>

\* the end date input's onChange
SetAnalysisEndDate(text) ==
    /\ diaryAnalysisEndDate' = text
    /\ analysis' = Some(AnalysisOf(diaryAnalysisRange, diaryAnalysisMonth,
                                   diaryAnalysisStartDate, text, healthSettings))
    /\ UNCHANGED <<now, sessionVars, journalList, childList, statsVars, insightVars,
                   trendVars, calendarVars, fortuneVars, hashVars, normVars, formVars,
                   raceVars, diaryAnalysisRange, diaryAnalysisStartDate, healthSettings>>

\* a health setting's checkbox
SetHealthSettings(settings) ==
    /\ healthSettings' = settings
    /\ analysis' = Some(AnalysisOf(diaryAnalysisRange, diaryAnalysisMonth,
                                   diaryAnalysisStartDate, diaryAnalysisEndDate, settings))
    /\ UNCHANGED <<now, sessionVars, journalList, childList, statsVars, insightVars,
                   trendVars, calendarVars, fortuneVars, hashVars, normVars, formVars,
                   raceVars, diaryAnalysisRange, diaryAnalysisStartDate,
                   diaryAnalysisEndDate>>

-----------------------------------------------------------------------------
(* Prompt budget: the per-day counter kept in localStorage *)

REFLECTION_PROMPT_DAILY_LIMIT == 3

\* size of the prompt catalog kept by the model (the source's has 100 entries)
PoolSize == 3

\* every catalog prompt is a distinct string; the model keeps one code unit
\* of the private-use area per prompt
reflectionPromptPool == [i \in 1..PoolSize |-> <<Ch.prompt + i>>]

\* "reflection_prompt_count:"
UsageKeyPrefix ==
    <<114, 101, 102, 108, 101, 99, 116, 105, 111, 110, 95, 112, 114, 111, 109, 112,
      116, 95, 99, 111, 117, 110, 116, 58>>

reflectionPromptUsageKey(date) == UsageKeyPrefix \o date

\* window.localStorage.getItem(key)
getItem(store, key) == IF key \in DOMAIN store THEN Some(store[key]) ELSE Null

\* window.localStorage.setItem(key, value)
setItem(store, key, value) ==
    [k \in DOMAIN store \cup {key} |-> IF k = key THEN value ELSE store[k]]

IsDigits(s) == s # <<>> /\ \A i \in 1..Len(s) : s[i] \in Ch.zero..(Ch.zero + 9)

RECURSIVE DigitsValue(_)
DigitsValue(s) ==
    IF s = <<>> THEN 0 ELSE 10 * DigitsValue(SubSeq(s, 1, Len(s) - 1)) + (s[Len(s)] - Ch.zero)

\* Number(text) for the texts the model stores: surrounding white space is
\* dropped, the empty text is 0, an optionally signed run of decimal digits
\* is its value, and any other text is NaN.
ToNumber(text) ==
    LET t == Trim(text)
        signed == t # <<>> /\ Head(t) \in {Ch.dash, Ch.plus}
        body == IF signed THEN Tail(t) ELSE t
    IN IF t = <<>> THEN [nan |-> FALSE, n |-> 0]
       ELSE IF IsDigits(body)
       THEN [nan |-> FALSE,
             n |-> IF Head(t) = Ch.dash THEN -DigitsValue(body) ELSE DigitsValue(body)]
       ELSE [nan |-> TRUE, n |-> 0]

getReflectionPromptUsage(date) ==
    LET value == getItem(localStorage, reflectionPromptUsageKey(date))
        parsed == ToNumber(IF IsNull(value) THEN <<Ch.zero>> ELSE Val(value))
    IN IF parsed.nan \/ parsed.n < 0 THEN 0 ELSE parsed.n

\* the store after setReflectionPromptUsage(date, count)
setReflectionPromptUsage(date, count) ==
    setItem(localStorage, reflectionPromptUsageKey(date), NumToString(Max2(0, count)))

-----------------------------------------------------------------------------
(* The journal form: owner, selected date, free-text buffer, prompt budget *)

\* "u1", "u2"
Owners == {<<117, 49>>, <<117, 50>>}

\* the dates the date picker selects in the model: today and yesterday
JournalDates == {dateInputValue(DayBack(now, k)) : k \in {0, 1}}

\* longest buffer the model still extends: every catalog prompt, injected once
MaxReflectionLen == 3 * PoolSize - 1

NoMessage == [kind |-> "none", count |-> 0]
ExhaustedMessage == [kind |-> "exhausted", count |-> REFLECTION_PROMPT_DAILY_LIMIT]
UsedMessage(n) == [kind |-> "used", count |-> n]

\* lastOp: the handler that ran last, whether it injected a prompt and which,
\* the count it read, and whether it changed the buffer or the store
NoOp == [op |-> "none", injected |-> FALSE, prompt |-> <<>>, used |-> 0, wrote |-> FALSE]

BudgetExhausted_Above(used) == used > REFLECTION_PROMPT_DAILY_LIMIT

\* if (used >= REFLECTION_PROMPT_DAILY_LIMIT)
BudgetExhausted(used) == used >= REFLECTION_PROMPT_DAILY_LIMIT

AvailablePrompts_Unfiltered(buffer) == reflectionPromptPool

\* reflectionPromptPool.filter((prompt) => !reflection.includes(prompt))
AvailablePrompts(buffer) ==
    LET Fresh(prompt) == ~Includes(buffer, prompt)
    IN SelectSeq(reflectionPromptPool, Fresh)

\* prev.trim() ? `${prev.trim()}\n\n${prompt}\n` : `${prompt}\n`
AppendPrompt(prev, prompt) ==
    IF Trim(prev) # <<>>
    THEN Trim(prev) \o <<Ch.newline, Ch.newline>> \o prompt \o <<Ch.newline>>
    ELSE prompt \o <<Ch.newline>>

addReflectionPrompt ==
    LET used == getReflectionPromptUsage(journalDate)
    IN IF BudgetExhausted(used)
       THEN /\ reflectionPromptCount' = used
            /\ reflectionPromptMessage' = ExhaustedMessage
            /\ UNCHANGED <<reflection, localStorage, injections>>
            /\ lastOp' = [op |-> "addReflectionPrompt", injected |-> FALSE,
                          prompt |-> <<>>, used |-> used,
                          wrote |-> (reflection' # reflection \/ localStorage' # localStorage)]
       ELSE /\ Len(reflection) <= MaxReflectionLen
            /\ localStorage' = setReflectionPromptUsage(journalDate, used + 1)
            /\ LET available == AvailablePrompts(reflection)
                   pool == IF Len(available) > 0 THEN available ELSE reflectionPromptPool
               IN \E i \in 1..Len(pool) :
                     /\ reflection' = AppendPrompt(reflection, pool[i])
                     /\ lastOp' = [op |-> "addReflectionPrompt", injected |-> TRUE,
                                   prompt |-> pool[i], used |-> used,
                                   wrote |-> (reflection' # reflection
                                              \/ localStorage' # localStorage)]
            /\ reflectionPromptCount' = used + 1
            /\ reflectionPromptMessage' = UsedMessage(used + 1)
            /\ injections' = [injections EXCEPT ![journalDate] = @ + 1]

\* the date input's onChange / a calendar cell's onClick, with the effect
\* that re-reads the budget when journalDate changed
ChangeJournalDate(date) ==
    /\ journalDate' = date
    /\ IF date # journalDate
       THEN /\ reflectionPromptCount' = getReflectionPromptUsage(date)
            /\ reflectionPromptMessage' = NoMessage
       ELSE UNCHANGED <<reflectionPromptCount, reflectionPromptMessage>>
    /\ lastOp' = [NoOp EXCEPT !.op = "setJournalDate"]
    /\ UNCHANGED <<reflection, localStorage, injections>>

\* Math.max(0, REFLECTION_PROMPT_DAILY_LIMIT - reflectionPromptCount)
RemainingShown == Max2(0, REFLECTION_PROMPT_DAILY_LIMIT - reflectionPromptCount)

\* disabled={reflectionPromptCount >= REFLECTION_PROMPT_DAILY_LIMIT}
InjectDisabled == reflectionPromptCount >= REFLECTION_PROMPT_DAILY_LIMIT

\* texts the user types or pastes into the buffer
ReflectionInputs == {<<>>, <<Ch.a>>, <<Ch.a, Ch.space>> \o reflectionPromptPool[1]}

\* the textarea's onChange
TypeReflection(text) ==
    /\ reflection' = text
    /\ lastOp' = [NoOp EXCEPT !.op = "setReflection"]
    /\ UNCHANGED <<journalDate, localStorage, reflectionPromptCount, reflectionPromptMessage,
                   injections>>

\* onAuthStateChanged: user is Null on sign-out; the model's users have
\* neither a profile nor an e-mail address, so their label is their uid
AuthStateChanged(user) ==
    /\ uid' = user
    /\ userEmail' = IF IsNull(user) THEN <<>> ELSE Val(user)
    /\ isGuestUser' = FALSE
    /\ guestSessionId' = Null
    /\ journalList' = <<>>
    /\ childList' = <<>>
    /\ lastOp' = [NoOp EXCEPT !.op = "onAuthStateChanged"]
    /\ UNCHANGED <<journalDate, reflection, localStorage, reflectionPromptCount,
                   reflectionPromptMessage, injections>>

-----------------------------------------------------------------------------
(* addReflectionPrompt in two sessions that share localStorage: the read of  *)
(* getReflectionPromptUsage and the write of setReflectionPromptUsage are    *)
(* separate accesses of the store, and the other session may run between     *)
(* them.  The buffer and the displayed count of a session are its own and    *)
(* are left out.                                                             *)

NextCount_PlusTwo(used) == used + 2

\* const nextCount = used + 1
NextCount(used) == used + 1

\* a session reads the count of the date it has selected; at the ceiling it
\* returns without a write
TabReads(t, date) ==
    /\ tabs[t].pc = "idle"
    /\ LET used == getReflectionPromptUsage(date)
       IN tabs' = [tabs EXCEPT ![t] =
                      IF BudgetExhausted(used)
                      THEN [@ EXCEPT !.pc = "idle", !.date = date, !.used = used]
                      ELSE [@ EXCEPT !.pc = "read", !.date = date, !.used = used]]
    /\ UNCHANGED <<now, sessionVars, journalList, childList, statsVars, insightVars,
                   trendVars, calendarVars, digestVars, formVars, fortuneVars, hashVars,
                   normVars>>

\* the session writes the count it read plus one
TabWrites(t) ==
    /\ tabs[t].pc = "read"
    /\ localStorage' = setReflectionPromptUsage(tabs[t].date, NextCount(tabs[t].used))
    /\ tabs' = [tabs EXCEPT ![t] = [@ EXCEPT !.pc = "idle", !.wrote = NextCount(tabs[t].used)]]
    /\ UNCHANGED <<now, uid, userEmail, isGuestUser, guestSessionId, journalDate, reflection,
                   reflectionPromptCount, reflectionPromptMessage, lastOp, injections,
                   journalList, childList, statsVars, insightVars, trendVars, calendarVars,
                   digestVars, formVars, fortuneVars, hashVars, normVars>>

-----------------------------------------------------------------------------
(* Record lifetime: saveJournal, editJournal, cancelJournalEdit, deleteJournal *)
(* and the snapshot of the journals collection.  A call of the store that    *)
(* a handler awaits is kept in requests until the store settles it.          *)

\* ids the store gives to documents in the model
DocIds == {1, 2}

\* store calls that can be awaited at the same time in the model
RequestSlots == {1}

\* ids some part of the state still refers to
KnownIds ==
    DOMAIN journals
      \cup {journalList[i].id : i \in 1..Len(journalList)}
      \cup {Val(r.id) : r \in {q \in requests : ~IsNull(q.id)}}
      \cup (IF IsNull(editingJournalId) THEN {} ELSE {Val(editingJournalId)})

\* ids the store can still give to added documents
FreshIds == DocIds \ KnownIds

\* the record the snapshot handler builds from a document
EntryOf(id, data) ==
    [id |-> id, uid |-> data.uid, date |-> data.date, mood |-> data.mood,
     medicationRecord |-> data.medicationRecord, reflection |-> data.reflection,
     text |-> data.text]

\* orderBy("date", "desc"): the ids of a set of documents, later dates first
\* and equal dates by id
RECURSIVE OrderedIds(_, _)
OrderedIds(store, ids) ==
    IF ids = {} THEN <<>>
    ELSE LET first == CHOOSE i \in ids :
                         \A j \in ids :
                            \/ StrLess(store[j].date, store[i].date)
                            \/ store[j].date = store[i].date /\ i <= j
         IN <<first>> \o OrderedIds(store, ids \ {first})

\* the rows of the snapshot of where("uid", "==", owner), orderBy("date", "desc")
SnapshotOf(store, owner) ==
    LET ids == OrderedIds(store, {i \in DOMAIN store : store[i].uid = owner})
    IN [k \in 1..Len(ids) |-> EntryOf(ids[k], store[ids[k]])]

\* composeDiaryContent("general", {}, reflection): the mode answers are empty
composedDiaryText == Trim(reflection)

\* what every handler of this section leaves alone
FormFrame ==
    UNCHANGED <<now, uid, userEmail, isGuestUser, guestSessionId, localStorage, injections, lastOp,
                childList, statsVars, insightVars, trendVars, calendarVars, digestVars,
                raceVars, fortuneVars, hashVars, normVars>>

JournalDateSet_NoReread(date) ==
    /\ journalDate' = date
    /\ UNCHANGED <<reflectionPromptCount, reflectionPromptMessage>>

\* setJournalDate(date) and the effect that re-reads the budget of a new date
JournalDateSet(date) ==
    /\ journalDate' = date
    /\ IF date # journalDate
       THEN /\ reflectionPromptCount' = getReflectionPromptUsage(date)
            /\ reflectionPromptMessage' = NoMessage
       ELSE UNCHANGED <<reflectionPromptCount, reflectionPromptMessage>>

\* the form after a save: the fields are reset, the selected date is kept
FormReset ==
    /\ editingJournalId' = Null
    /\ reflection' = <<>>
    /\ sliderMood' = 5

SaveKind_AlwaysAdd(editing) == "add"

\* if (editingJournalId) updateDoc(...) else addDoc(...)
SaveKind(editing) == IF IsNull(editing) THEN "add" ELSE "update"

\* saveJournal up to its await
saveJournal ==
    /\ UNCHANGED <<journals, journalList, journalDate, reflection, reflectionPromptCount,
                   reflectionPromptMessage, editingJournalId, sliderMood>>
    /\ FormFrame
    /\ IF IsNull(uid)
       THEN saveStatus' = "signing-in" /\ UNCHANGED requests
       ELSE IF isGuestUser /\ IsNull(guestSessionId)
       THEN saveStatus' = "guest-session" /\ UNCHANGED requests
       ELSE IF composedDiaryText = <<>>
       THEN saveStatus' = "empty" /\ UNCHANGED requests
       ELSE /\ Cardinality(requests) < Cardinality(RequestSlots)
            /\ ~IsNull(editingJournalId) \/ Cardinality(FreshIds)
                  > Cardinality({r \in requests : r.kind = "add"})
            /\ requests' = requests \cup
                  {[kind |-> SaveKind(editingJournalId), id |-> editingJournalId,
                    editing |-> editingJournalId,
                    payload |-> [uid |-> Val(uid), date |-> journalDate, mood |-> sliderMood,
                                 medicationRecord |-> Null,
                                 reflection |-> composedDiaryText,
                                 text |-> composedDiaryText]]}
            /\ UNCHANGED saveStatus

\* the store settles an awaited addDoc / updateDoc and saveJournal resumes;
\* updateDoc rejects when the document does not exist
SaveSettled(request, ok) ==
    /\ request \in requests
    /\ request.kind \in {"add", "update"}
    /\ requests' = requests \ {request}
    /\ UNCHANGED <<journalList, journalDate, reflectionPromptCount, reflectionPromptMessage>>
    /\ FormFrame
    /\ IF ok
       THEN /\ IF request.kind = "update"
               THEN /\ Val(request.id) \in DOMAIN journals
                    /\ journals' = [journals EXCEPT ![Val(request.id)] = request.payload]
                    /\ saveStatus' = "updated"
               ELSE /\ journals' =
                         LET id == CHOOSE i \in FreshIds : \A j \in FreshIds : i <= j
                         IN [i \in DOMAIN journals \cup {id} |->
                               IF i = id THEN request.payload ELSE journals[i]]
                    /\ saveStatus' = "saved"
            /\ FormReset
       ELSE /\ saveStatus' = "save-failed"
            /\ UNCHANGED <<journals, editingJournalId, reflection, sliderMood>>

\* editJournal(entry) for a row of the list
editJournal(entry) ==
    /\ editingJournalId' = Some(entry.id)
    /\ JournalDateSet(entry.date)
    /\ sliderMood' = entry.mood
    /\ reflection' = OrElse(entry.reflection, entry.text)
    /\ saveStatus' = "editing"
    /\ UNCHANGED <<journals, journalList, requests>>
    /\ FormFrame

\* the state changes of cancelJournalEdit
EditCancelled ==
    /\ editingJournalId' = Null
    /\ JournalDateSet(todayInputValue)
    /\ sliderMood' = 5
    /\ reflection' = <<>>

cancelJournalEdit ==
    /\ EditCancelled
    /\ saveStatus' = "none"
    /\ UNCHANGED <<journals, journalList, requests>>
    /\ FormFrame

\* deleteJournal(entry), confirmed, up to its await; declining the
\* confirmation returns at once and changes nothing
deleteJournal(entry) ==
    /\ Cardinality(requests) < Cardinality(RequestSlots)
    /\ requests' = requests \cup
          {[kind |-> "delete", id |-> Some(entry.id), editing |-> editingJournalId,
            payload |-> Null]}
    /\ UNCHANGED <<journals, journalList, journalDate, reflection, reflectionPromptCount,
                   reflectionPromptMessage, editingJournalId, sliderMood, saveStatus>>
    /\ FormFrame

\* if (editingJournalId === entry.id), with the editingJournalId of the
\* render deleteJournal was called in
DeleteLeavesEdit(request) == request.editing = request.id

\* the store settles an awaited deleteDoc and deleteJournal resumes;
\* deleting a document that is gone succeeds
DeleteSettled(request, ok) ==
    /\ request \in requests
    /\ request.kind = "delete"
    /\ requests' = requests \ {request}
    /\ UNCHANGED journalList
    /\ FormFrame
    /\ IF ok
       THEN /\ journals' = [i \in DOMAIN journals \ {Val(request.id)} |-> journals[i]]
            /\ IF DeleteLeavesEdit(request)
               THEN EditCancelled
               ELSE UNCHANGED <<editingJournalId, journalDate, reflectionPromptCount,
                                reflectionPromptMessage, sliderMood, reflection>>
            /\ saveStatus' = "deleted"
       ELSE /\ saveStatus' = "delete-failed"
            /\ UNCHANGED <<journals, editingJournalId, journalDate, reflectionPromptCount,
                           reflectionPromptMessage, sliderMood, reflection>>

\* onSnapshot of the journals query of the signed-in user
JournalsSnapshot ==
    /\ ~IsNull(uid)
    /\ journalList' = SnapshotOf(journals, Val(uid))
    /\ journalList' # journalList
    /\ UNCHANGED <<journals, journalDate, reflection, reflectionPromptCount,
                   reflectionPromptMessage, editingJournalId, sliderMood, saveStatus,
                   requests>>
    /\ FormFrame

-----------------------------------------------------------------------------
(* Insights: streak and extremum days (diaryInsights), one step per loop turn *)

\* Number.isFinite(entry.mood): every mood of the model is a finite number
IsFiniteMood(entry) == entry.mood \in Int

\* `${entry.date} (${entry.mood}/10)`
DayText(entry) ==
    entry.date \o <<Ch.space, 40>> \o NumToString(entry.mood) \o <<Ch.slash, 49, 48, 41>>

\* "-"
NoDay == <<Ch.dash>>

RECURSIVE MinEntry_LastWins(_, _)
MinEntry_LastWins(best, rest) ==
    IF rest = <<>> THEN best
    ELSE MinEntry_LastWins(IF Head(rest).mood <= best.mood THEN Head(rest) ELSE best,
                           Tail(rest))

\* for (const entry of valid) if (entry.mood < minEntry.mood) minEntry = entry
RECURSIVE MinEntry(_, _)
MinEntry(best, rest) ==
    IF rest = <<>> THEN best
    ELSE MinEntry(IF Head(rest).mood < best.mood THEN Head(rest) ELSE best, Tail(rest))

\* for (const entry of valid) if (entry.mood > maxEntry.mood) maxEntry = entry
RECURSIVE MaxEntry(_, _)
MaxEntry(best, rest) ==
    IF rest = <<>> THEN best
    ELSE MaxEntry(IF Head(rest).mood > best.mood THEN Head(rest) ELSE best, Tail(rest))

StreakKey_EveryOtherDay(n) == dateInputValue(DayBack(now, n \div 2))

StreakKey_FromYesterday(n) == dateInputValue(DayBack(now, n + 1))

\* day = new Date(); day.setDate(day.getDate() - streak); key = dateInputValue(day)
StreakKey(n) == dateInputValue(DayBack(now, n))

StreakBroken_TodayExcused(key, dates) == key \notin dates /\ key # todayInputValue

\* if (!dateSet.has(key)) break
StreakBroken(key, dates) == key \notin dates

InsightsStart ==
    /\ pc = "idle"
    /\ LET v == SelectSeq(journalList, IsFiniteMood)
       IN /\ valid' = v
          /\ IF Len(v) = 0
             THEN /\ insights' = Some([streak |-> 0, toughestDay |-> NoDay,
                                       strongestDay |-> NoDay])
                  /\ pc' = "done"
                  /\ UNCHANGED <<dateSet, streak>>
             ELSE /\ dateSet' = {v[i].date : i \in 1..Len(v)}
                  /\ streak' = 0
                  /\ pc' = "walk"
                  /\ UNCHANGED insights
    /\ UNCHANGED <<now, sessionVars, journalList, childList, statsVars, trendVars,
                   calendarVars, digestVars, formVars, raceVars, fortuneVars, hashVars, normVars>>

\* one turn of the while (true) loop
StreakStep ==
    /\ pc = "walk"
    /\ IF StreakBroken(StreakKey(streak), dateSet)
       THEN pc' = "extrema" /\ UNCHANGED streak
       ELSE streak' = streak + 1 /\ UNCHANGED pc
    /\ UNCHANGED <<now, sessionVars, journalList, childList, statsVars, trendVars,
                   calendarVars, digestVars, formVars, raceVars, fortuneVars, hashVars, normVars, valid, dateSet, insights>>

InsightsFinish ==
    /\ pc = "extrema"
    /\ insights' = Some([streak |-> streak,
                         toughestDay |-> DayText(MinEntry(valid[1], valid)),
                         strongestDay |-> DayText(MaxEntry(valid[1], valid))])
    /\ pc' = "done"
    /\ UNCHANGED <<now, sessionVars, journalList, childList, statsVars, trendVars,
                   calendarVars, digestVars, formVars, raceVars, fortuneVars, hashVars, normVars, valid, dateSet, streak>>

-----------------------------------------------------------------------------
(* The daily guidance shown by the journal form *)

\* uid ?? userEmail ?? guestSessionId ?? "guest": userEmail is a string and
\* never null, so the chain ends there when no owner is signed in
OwnerSeed == IF IsNull(uid) THEN userEmail ELSE Val(uid)

dailyFortune == pickDailyFortune(journalDate, OwnerSeed)

\* the history keeps the last two selections, the newest first
Logged(selection) == SubSeq(<<selection>> \o fortuneLog, 1, Min2(2, Len(fortuneLog) + 1))

\* the render that evaluates the dailyFortune memo
RenderDailyFortune ==
    /\ fortune' = Some(dailyFortune)
    /\ fortuneLog' = Logged([date |-> journalDate, seed |-> OwnerSeed,
                             entry |-> dailyFortune])
    /\ UNCHANGED <<now, sessionVars, journalList, childList, statsVars, insightVars,
                   trendVars, calendarVars, digestVars, formVars, raceVars, hashVars, normVars>>

\* a call of pickDailyFortune with the given arguments
PickFortune(date, userSeed) ==
    /\ fortuneLog' = Logged([date |-> date, seed |-> userSeed,
                             entry |-> pickDailyFortune(date, userSeed)])
    /\ UNCHANGED <<now, sessionVars, journalList, childList, statsVars, insightVars,
                   trendVars, calendarVars, digestVars, formVars, raceVars, fortune, hashVars, normVars>>

-----------------------------------------------------------------------------
(* Calls of the scalar normalizers *)

\* scoreFromMood applied to each of the arguments
ScoreMoods ==
    /\ IsNull(scoresOut)
    /\ moodsIn # <<>>
    /\ scoresOut' = Some([i \in 1..Len(moodsIn) |-> scoreFromMood(moodsIn[i])])
    /\ UNCHANGED <<now, sessionVars, journalList, childList, statsVars, insightVars,
                   trendVars, calendarVars, digestVars, formVars, raceVars, fortuneVars, hashVars, moodsIn, valuesIn,
                   averageOut>>

\* averageMood applied to the argument
AverageMoods ==
    /\ IsNull(averageOut)
    /\ averageOut' = Some(averageMood(valuesIn))
    /\ UNCHANGED <<now, sessionVars, journalList, childList, statsVars, insightVars,
                   trendVars, calendarVars, digestVars, formVars, raceVars, fortuneVars, hashVars, moodsIn, scoresOut,
                   valuesIn>>

-----------------------------------------------------------------------------
(* hashText, one step per loop turn *)

\* hash = (hash * 31 + value.charCodeAt(i)) >>> 0; i += 1
HashStep ==
    /\ hashPc = "loop"
    /\ hashI < Len(hashValue)
    /\ hashWide' = HashStepWide(hash, hashValue[hashI + 1])
    /\ hash' = ToUint32(HashStepWide(hash, hashValue[hashI + 1]))
    /\ hashI' = hashI + 1
    /\ UNCHANGED <<now, sessionVars, journalList, childList, statsVars, insightVars,
                   trendVars, calendarVars, digestVars, formVars, raceVars, fortuneVars, normVars, hashPc, hashValue>>

\* return hash
HashReturn ==
    /\ hashPc = "loop"
    /\ hashI >= Len(hashValue)
    /\ hashPc' = "done"
    /\ UNCHANGED <<now, sessionVars, journalList, childList, statsVars, insightVars,
                   trendVars, calendarVars, digestVars, formVars, raceVars, fortuneVars, normVars, hashValue, hashI, hash,
                   hashWide>>

-----------------------------------------------------------------------------
(* Memo evaluation of the weekly aggregates and of the trend label *)

ComputeWeekly ==
    /\ IsNull(weekly)
    /\ weekly' = Some([points |-> weeklyPoints, stats |-> weeklyStats])
    /\ UNCHANGED <<now, sessionVars, journalList, childList, childWeekly, insightVars,
                   trendVars, calendarVars, digestVars, formVars, raceVars, fortuneVars, hashVars, normVars>>

ComputeChildWeekly ==
    /\ IsNull(childWeekly)
    /\ childWeekly' = Some([points |-> childWeeklyPoints, stats |-> childWeeklyStats])
    /\ UNCHANGED <<now, sessionVars, journalList, childList, weekly, insightVars,
                   trendVars, calendarVars, digestVars, formVars, raceVars, fortuneVars, hashVars, normVars>>

ClassifyTrend ==
    /\ IsNull(trendOut)
    /\ trendOut' = Some(trendLabel(trendIn))
    /\ UNCHANGED <<now, sessionVars, journalList, childList, statsVars, insightVars,
                   trendIn, calendarVars, digestVars, formVars, raceVars, fortuneVars, hashVars, normVars>>

-----------------------------------------------------------------------------
(* Initial states and specifications *)

SeqsUpTo(S, n) == UNION {[1..k -> S] : k \in 0..n}

\* 2024-05-02, the day of the end-to-end scenario
ScenarioToday == [y |-> 2024, m |-> 4, d |-> 2]

SessionIdle ==
    /\ uid = Null
    /\ userEmail = <<>>
    /\ isGuestUser = FALSE
    /\ guestSessionId = Null
    /\ journalDate = todayInputValue
    /\ reflection = <<>>
    /\ localStorage = <<>>
    /\ reflectionPromptCount = 0
    /\ reflectionPromptMessage = NoMessage
    /\ lastOp = NoOp
    /\ injections = [d \in JournalDates |-> 0]

StatsIdle == weekly = Null /\ childWeekly = Null

InsightsIdle ==
    /\ pc = "idle"
    /\ valid = <<>>
    /\ dateSet = {}
    /\ streak = 0
    /\ insights = Null

TrendIdle == trendIn = 0 /\ trendOut = Null

CalendarIdle ==
    /\ diaryAnalysisMonth = now
    /\ childAnalysisMonth = now
    /\ calendar = Null
    /\ childCalendar = Null

FortuneIdle == fortune = Null /\ fortuneLog = <<>>

HashIdle ==
    /\ hashPc = "idle"
    /\ hashValue = <<>>
    /\ hashI = 0
    /\ hash = [hi |-> 0, lo |-> 0]
    /\ hashWide = [top |-> 0, hi |-> 0, lo |-> 0]

NormIdle ==
    /\ moodsIn = <<>>
    /\ scoresOut = Null
    /\ valuesIn = <<>>
    /\ averageOut = Null

NoHealth == [enabled |-> FALSE, medicationEnabled |-> FALSE, consented |-> FALSE]

DigestIdle ==
    /\ diaryAnalysisRange = "weekly"
    /\ diaryAnalysisStartDate = dateInputValue(addDays(now, -6))
    /\ diaryAnalysisEndDate = todayInputValue
    /\ healthSettings = NoHealth
    /\ analysis = Null

FormIdle ==
    /\ journals = <<>>
    /\ editingJournalId = Null
    /\ sliderMood = 5
    /\ saveStatus = "none"
    /\ requests = {}

Tabs == {1, 2}

\* a session on the shared store: where it is inside addReflectionPrompt, the
\* date and the count it read, and the count it wrote last
TabIdle == [pc |-> "idle", date |-> <<>>, used |-> 0, wrote |-> 0]

RaceIdle == tabs = [t \in Tabs |-> TabIdle]

(* The journal form *)

Init ==
    /\ now = ScenarioToday
    /\ uid = Null
    /\ userEmail = <<>>
    /\ isGuestUser = FALSE
    /\ guestSessionId = Null
    /\ journalDate = todayInputValue
    /\ reflection = <<>>
    /\ localStorage = <<>>
    /\ reflectionPromptCount = getReflectionPromptUsage(journalDate)
    /\ reflectionPromptMessage = NoMessage
    /\ lastOp = NoOp
    /\ injections = [d \in JournalDates |-> 0]
    /\ journalList = <<>>
    /\ childList = <<>>
    /\ StatsIdle /\ InsightsIdle /\ TrendIdle
    /\ CalendarIdle /\ FortuneIdle /\ HashIdle /\ NormIdle
    /\ DigestIdle /\ FormIdle /\ RaceIdle

Next ==
    \/ /\ addReflectionPrompt
       /\ UNCHANGED <<now, uid, userEmail, isGuestUser, guestSessionId, journalDate, journalList, childList, statsVars,
                      insightVars, trendVars,
                      calendarVars, digestVars, formVars, raceVars, fortuneVars, hashVars, normVars>>
    \/ /\ \E date \in JournalDates : ChangeJournalDate(date)
       /\ UNCHANGED <<now, uid, userEmail, isGuestUser, guestSessionId, journalList, childList, statsVars, insightVars,
                      trendVars, calendarVars, digestVars, formVars, raceVars, fortuneVars, hashVars, normVars>>
    \/ /\ \E text \in ReflectionInputs : TypeReflection(text)
       /\ UNCHANGED <<now, uid, userEmail, isGuestUser, guestSessionId, journalList, childList, statsVars, insightVars,
                      trendVars, calendarVars, digestVars, formVars, raceVars, fortuneVars, hashVars, normVars>>
    \/ /\ \E user \in {Null} \cup {Some(o) : o \in Owners} : AuthStateChanged(user)
       /\ UNCHANGED <<now, statsVars, insightVars, trendVars,
                      calendarVars, digestVars, formVars, raceVars, fortuneVars, hashVars, normVars>>

Spec == Init /\ [][Next]_vars

(* The journal form with pasted buffers *)

RECURSIVE Flatten(_)
Flatten(texts) == IF texts = <<>> THEN <<>> ELSE Head(texts) \o Flatten(Tail(texts))

\* buffers typed or pasted before a prompt is asked for: empty, holding one
\* catalog prompt, holding every catalog prompt
PromptBuffers ==
    {<<>>, <<Ch.a, Ch.space>> \o reflectionPromptPool[1], Flatten(reflectionPromptPool)}

NextPrompt ==
    \/ /\ addReflectionPrompt
       /\ UNCHANGED <<now, uid, userEmail, isGuestUser, guestSessionId, journalDate, journalList, childList, statsVars,
                      insightVars, trendVars,
                      calendarVars, digestVars, formVars, raceVars, fortuneVars, hashVars, normVars>>
    \/ /\ \E date \in JournalDates : ChangeJournalDate(date)
       /\ UNCHANGED <<now, uid, userEmail, isGuestUser, guestSessionId, journalList, childList, statsVars, insightVars,
                      trendVars, calendarVars, digestVars, formVars, raceVars, fortuneVars, hashVars, normVars>>
    \/ /\ \E text \in PromptBuffers : TypeReflection(text)
       /\ UNCHANGED <<now, uid, userEmail, isGuestUser, guestSessionId, journalList, childList, statsVars, insightVars,
                      trendVars, calendarVars, digestVars, formVars, raceVars, fortuneVars, hashVars, normVars>>

SpecPrompt == Init /\ [][NextPrompt]_vars

(* The digest over drawn record lists, windows and settings *)

\* longest record list drawn for the digest
MaxDigestRecords == 2

\* "a\nb": free text with an embedded hard return
TwoLineText == <<Ch.a, Ch.newline, Ch.a + 1>>

\* "joy"
JoyTag == <<106, 111, 121>>

\* "ill"
MissedReasonText == <<105, 108, 108>>

DigestRecord(back, score, tags, meds, body) ==
    [date |-> dateInputValue(DayBack(ScenarioToday, back)), mood |-> score, energy |-> 5,
     relationship |-> 5, achievement |-> 5, emotions |-> tags,
     medicationRecord |-> meds, reflection |-> body, text |-> body]

\* drawn journal records: of today, of the window's first day and of the day before
\* it; with and without tags, a medication record, free text, a hard return
DigestEntries ==
    {DigestRecord(0, 8, <<>>, Some([status |-> "skipped", missedReason |-> MissedReasonText]),
                  <<Ch.a>>),
     DigestRecord(0, 2, <<JoyTag, JoyTag>>, Null, TwoLineText),
     DigestRecord(6, 5, <<JoyTag>>, Some([status |-> "taken", missedReason |-> <<>>]),
                  <<>>),
     DigestRecord(7, 5, <<>>, Null, <<Ch.a>>)}

\* orderBy("date", "desc"): a snapshot lists later dates first
IsDateDescending(list) ==
    \A i \in 1..(Len(list) - 1) : StrLeq(list[i + 1].date, list[i].date)

DigestLists == {list \in SeqsUpTo(DigestEntries, MaxDigestRecords) : IsDateDescending(list)}

\* texts of the custom range's date inputs: cleared, the window's first day, today
AnalysisDateInputs ==
    {<<>>, dateInputValue(DayBack(ScenarioToday, 6)), dateInputValue(ScenarioToday)}

HealthSettingsValues == [enabled : BOOLEAN, medicationEnabled : BOOLEAN, consented : BOOLEAN]

InitDigest ==
    /\ now = ScenarioToday
    /\ SessionIdle
    /\ journalList \in DigestLists
    /\ childList = <<>>
    /\ StatsIdle /\ InsightsIdle /\ TrendIdle
    /\ CalendarIdle /\ FortuneIdle /\ HashIdle /\ NormIdle
    /\ FormIdle /\ RaceIdle
    /\ diaryAnalysisRange = "weekly"
    /\ diaryAnalysisStartDate = dateInputValue(addDays(now, -6))
    /\ diaryAnalysisEndDate = todayInputValue
    /\ healthSettings = NoHealth
    /\ analysis = Some(AnalysisOf(diaryAnalysisRange, diaryAnalysisMonth,
                                  diaryAnalysisStartDate, diaryAnalysisEndDate,
                                  healthSettings))

NextDigest ==
    \/ \E range \in AnalysisRanges : SetAnalysisRange(range)
    \/ \E text \in AnalysisDateInputs : SetAnalysisStartDate(text)
    \/ \E text \in AnalysisDateInputs : SetAnalysisEndDate(text)
    \/ \E settings \in HealthSettingsValues : SetHealthSettings(settings)

SpecDigest == InitDigest /\ [][NextDigest]_vars

(* The analysis window and the weekly points over several todays *)

\* 2024-01-01, 2024-03-03 (six days after 2024-02-26, across a leap day),
\* 2024-05-02 and 2025-01-31
WindowTodays ==
    {[y |-> 2024, m |-> 0, d |-> 1], [y |-> 2024, m |-> 2, d |-> 3], ScenarioToday,
     [y |-> 2025, m |-> 0, d |-> 31]}

\* drawn record lists: none, or one record of today, of the window's first day
\* or of the day before it
WindowLists(today) ==
    {<<>>} \cup
    {<<[date |-> dateInputValue(DayBack(today, back)), mood |-> 8, energy |-> 5,
        relationship |-> 5, achievement |-> 5, emotions |-> <<>>,
        medicationRecord |-> Null, reflection |-> <<Ch.a>>, text |-> <<Ch.a>>]>> :
        back \in {0, 6, 7}}

\* texts of the custom range's date inputs: cleared, 2023-12-26, 2024-05-02
\* and 2025-02-01
WindowDateInputs ==
    {<<>>, dateInputValue([y |-> 2023, m |-> 11, d |-> 26]), dateInputValue(ScenarioToday),
     dateInputValue([y |-> 2025, m |-> 1, d |-> 1])}

InitWindow ==
    /\ now \in WindowTodays
    /\ SessionIdle
    /\ journalList \in WindowLists(now)
    /\ childList = <<>>
    /\ StatsIdle /\ InsightsIdle /\ TrendIdle
    /\ FortuneIdle /\ HashIdle /\ NormIdle
    /\ FormIdle /\ RaceIdle
    /\ diaryAnalysisMonth = now
    /\ childAnalysisMonth = now
    /\ calendar = Some(diaryMonthDays)
    /\ childCalendar = Null
    /\ diaryAnalysisRange = "weekly"
    /\ diaryAnalysisStartDate = dateInputValue(addDays(now, -6))
    /\ diaryAnalysisEndDate = todayInputValue
    /\ healthSettings = NoHealth
    /\ analysis = Some(AnalysisOf(diaryAnalysisRange, diaryAnalysisMonth,
                                  diaryAnalysisStartDate, diaryAnalysisEndDate,
                                  healthSettings))

NextWindow ==
    \/ \E range \in AnalysisRanges : SetAnalysisRange(range)
    \/ \E text \in WindowDateInputs : SetAnalysisStartDate(text)
    \/ \E text \in WindowDateInputs : SetAnalysisEndDate(text)
    \/ \E step \in {-1, 1} : MoveDiaryMonth(step)
    \/ ComputeWeekly

SpecWindow == InitWindow /\ [][NextWindow]_vars

(* Two sessions on one store *)

NextTabs ==
    \/ \E t \in Tabs : \E date \in JournalDates : TabReads(t, date)
    \/ \E t \in Tabs : TabWrites(t)

SpecTabs == Init /\ [][NextTabs]_vars

(* The journal form and the store *)

\* "u1"
FormOwner == <<117, 49>>

\* texts typed into the buffer: nothing, "a", "b"
FormTexts == {<<>>, <<Ch.a>>, <<Ch.a + 1>>}

NextForm ==
    \/ saveJournal
    \/ \E request \in requests : \E ok \in BOOLEAN : SaveSettled(request, ok)
    \/ \E i \in 1..Len(journalList) : editJournal(journalList[i])
    \/ cancelJournalEdit
    \/ \E i \in 1..Len(journalList) : deleteJournal(journalList[i])
    \/ \E request \in requests : \E ok \in BOOLEAN : DeleteSettled(request, ok)
    \/ JournalsSnapshot
    \/ /\ \E text \in FormTexts : TypeReflection(text)
       /\ UNCHANGED <<now, uid, userEmail, isGuestUser, guestSessionId, journalList, childList,
                      statsVars, insightVars, trendVars, calendarVars, digestVars, formVars,
                      raceVars, fortuneVars, hashVars, normVars>>
    \/ /\ AuthStateChanged(Some(FormOwner))
       /\ UNCHANGED <<now, statsVars, insightVars, trendVars, calendarVars, digestVars,
                      formVars, raceVars, fortuneVars, hashVars, normVars>>
    \/ ComputeWeekly

SpecForm == Init /\ [][NextForm]_vars

(* The prompt budget as displayed, over stores some other code wrote *)

\* what the store holds for a date at the start: nothing, "abc", "-1", "2",
\* "3", "5"
StoredTexts == {Null, Some(<<97, 98, 99>>), Some(<<Ch.dash, 49>>), Some(<<50>>),
                Some(<<51>>), Some(<<53>>)}

\* the store holding the given texts for yesterday and today
StoreWith(before, today) ==
    LET keyBefore == reflectionPromptUsageKey(dateInputValue(DayBack(now, 1)))
        keyToday == reflectionPromptUsageKey(todayInputValue)
        keys == (IF IsNull(before) THEN {} ELSE {keyBefore})
                   \cup (IF IsNull(today) THEN {} ELSE {keyToday})
    IN [k \in keys |-> IF k = keyBefore THEN Val(before) ELSE Val(today)]

\* a saved record of the form's owner, `back` days before today
BudgetDocument(back) ==
    [uid |-> FormOwner, date |-> dateInputValue(DayBack(now, back)), mood |-> 5,
     medicationRecord |-> Null, reflection |-> <<Ch.a>>, text |-> <<Ch.a>>]

\* the owner is signed in, has a record of yesterday and one of today, and
\* the page has mounted: the effect has read the budget of today
InitBudget ==
    /\ now = ScenarioToday
    /\ uid = Some(FormOwner)
    /\ userEmail = FormOwner
    /\ isGuestUser = FALSE
    /\ guestSessionId = Null
    /\ journalDate = todayInputValue
    /\ reflection = <<>>
    /\ \E before \in StoredTexts : \E today \in StoredTexts :
          localStorage = StoreWith(before, today)
    /\ reflectionPromptCount = getReflectionPromptUsage(journalDate)
    /\ reflectionPromptMessage = NoMessage
    /\ lastOp = NoOp
    /\ injections = [d \in JournalDates |-> 0]
    /\ journals = [i \in DocIds |-> BudgetDocument(2 - i)]
    /\ journalList = SnapshotOf(journals, FormOwner)
    /\ editingJournalId = Null
    /\ sliderMood = 5
    /\ saveStatus = "none"
    /\ requests = {}
    /\ childList = <<>>
    /\ StatsIdle /\ InsightsIdle /\ TrendIdle
    /\ CalendarIdle /\ FortuneIdle /\ HashIdle /\ NormIdle
    /\ DigestIdle /\ RaceIdle

NextBudget ==
    \/ /\ addReflectionPrompt
       /\ UNCHANGED <<now, uid, userEmail, isGuestUser, guestSessionId, journalDate,
                      journalList, childList, statsVars, insightVars, trendVars,
                      calendarVars, digestVars, formVars, raceVars, fortuneVars, hashVars,
                      normVars>>
    \/ /\ \E date \in JournalDates : ChangeJournalDate(date)
       /\ UNCHANGED <<now, uid, userEmail, isGuestUser, guestSessionId, journalList, childList,
                      statsVars, insightVars, trendVars, calendarVars, digestVars, formVars,
                      raceVars, fortuneVars, hashVars, normVars>>
    \/ \E i \in 1..Len(journalList) : editJournal(journalList[i])
    \/ cancelJournalEdit

SpecBudget == InitBudget /\ [][NextBudget]_vars

(* Weekly aggregates over drawn record lists *)

\* longest record list drawn for the weekly aggregates
MaxStatRecords == 3

\* days before today on which the drawn records fall: both halves of the
\* window and the day just before it
StatDaysBack == {0, 1, 3, 4, 7}

StatMoods == {2, 8}

TakenMedication == Some([status |-> "taken", missedReason |-> <<>>])

\* drawn journal records; those of yesterday may carry a medication record
StatJournalEntries ==
    LET days == {dateInputValue(DayBack(ScenarioToday, k)) : k \in StatDaysBack}
        yesterday == dateInputValue(DayBack(ScenarioToday, 1))
    IN [date : days, mood : StatMoods, medicationRecord : {Null}]
       \cup [date : {yesterday}, mood : StatMoods, medicationRecord : {TakenMedication}]

StatChildEntries ==
    [date : {dateInputValue(DayBack(ScenarioToday, k)) : k \in StatDaysBack},
     progress : StatMoods]

InitStats ==
    /\ now = ScenarioToday
    /\ SessionIdle
    /\ \/ journalList \in SeqsUpTo(StatJournalEntries, MaxStatRecords) /\ childList = <<>>
       \/ journalList = <<>> /\ childList \in SeqsUpTo(StatChildEntries, MaxStatRecords)
    /\ StatsIdle /\ InsightsIdle /\ TrendIdle
    /\ CalendarIdle /\ FortuneIdle /\ HashIdle /\ NormIdle
    /\ DigestIdle /\ FormIdle /\ RaceIdle

NextStats == ComputeWeekly \/ ComputeChildWeekly

SpecStats == InitStats /\ [][NextStats]_vars

(* Trend classification over every delta *)

InitTrend ==
    /\ now = ScenarioToday
    /\ SessionIdle
    /\ journalList = <<>>
    /\ childList = <<>>
    /\ StatsIdle /\ InsightsIdle
    /\ CalendarIdle /\ FortuneIdle /\ HashIdle /\ NormIdle
    /\ DigestIdle /\ FormIdle /\ RaceIdle
    /\ trendIn \in -100..100
    /\ trendOut = Null

NextTrend == ClassifyTrend

SpecTrend == InitTrend /\ [][NextTrend]_vars

(* Insights over drawn record lists *)

\* longest record list drawn for the insights
MaxInsightRecords == 4

\* days before today on which the drawn records fall
InsightDaysBack == {0, 1, 2, 3, 4}

InsightMoods == {2, 8}

InsightEntries ==
    [date : {dateInputValue(DayBack(ScenarioToday, k)) : k \in InsightDaysBack},
     mood : InsightMoods]

InitInsights ==
    /\ now = ScenarioToday
    /\ SessionIdle
    /\ journalList \in SeqsUpTo(InsightEntries, MaxInsightRecords)
    /\ childList = <<>>
    /\ StatsIdle /\ InsightsIdle /\ TrendIdle
    /\ CalendarIdle /\ FortuneIdle /\ HashIdle /\ NormIdle
    /\ DigestIdle /\ FormIdle /\ RaceIdle

NextInsights == InsightsStart \/ StreakStep \/ InsightsFinish

SpecInsights == InitInsights /\ [][NextInsights]_vars

(* The streak walk, run to its end *)

\* days before today on which the drawn records fall
StreakDaysBack == {0, 1, 2, 3, 4, 5}

\* the records of a set of days, later days first as the journals query
\* orders them; with `twice` the latest day has two records
RECURSIVE StreakList(_, _)
StreakList(days, twice) ==
    IF days = {} THEN <<>>
    ELSE LET latest == CHOOSE k \in days : \A j \in days : k <= j
             entry == [date |-> dateInputValue(DayBack(ScenarioToday, latest)), mood |-> 5]
         IN (IF twice THEN <<entry, [entry EXCEPT !.mood = 8]>> ELSE <<entry>>)
               \o StreakList(days \ {latest}, FALSE)

InitStreak ==
    /\ now = ScenarioToday
    /\ SessionIdle
    /\ \E days \in SUBSET StreakDaysBack : \E twice \in BOOLEAN :
          journalList = StreakList(days, twice)
    /\ childList = <<>>
    /\ StatsIdle /\ InsightsIdle /\ TrendIdle
    /\ CalendarIdle /\ FortuneIdle /\ HashIdle /\ NormIdle
    /\ DigestIdle /\ FormIdle /\ RaceIdle

\* the memo runs to completion once it has started: no other handler runs
\* between two turns of its loop
SpecStreak == InitStreak /\ [][NextInsights]_vars /\ WF_vars(NextInsights)

(* Calendars over drawn record lists *)

\* longest record list drawn for the calendars
MaxCalendarRecords == 2

\* the days taken as today: 2024-01-01, 2024-05-02 and 2025-01-31
CalendarTodays ==
    {[y |-> 2024, m |-> 0, d |-> 1], ScenarioToday, [y |-> 2025, m |-> 0, d |-> 31]}

\* ratings of the drawn records; 12 is a stored rating outside the slider's
\* range, which Number(data.mood ?? 5) lets through
CalendarMoods == {1, 6, 7, 12}

CalendarProgress == {1, 7}

\* drawn records, all of today; the journal's record with the rating 12
\* carries a medication record
CalendarJournalEntries(today) ==
    {[date |-> dateInputValue(today), mood |-> mood,
      medicationRecord |-> IF mood = 12 THEN TakenMedication ELSE Null] :
        mood \in CalendarMoods}

CalendarChildEntries(today) == [date : {dateInputValue(today)}, progress : CalendarProgress]

\* the first render projects both calendars for the current month
InitCalendar ==
    /\ now \in CalendarTodays
    /\ SessionIdle
    /\ \/ /\ journalList \in SeqsUpTo(CalendarJournalEntries(now), MaxCalendarRecords)
          /\ childList = <<>>
       \/ /\ journalList = <<>>
          /\ childList \in SeqsUpTo(CalendarChildEntries(now), MaxCalendarRecords)
    /\ StatsIdle /\ InsightsIdle /\ TrendIdle
    /\ FortuneIdle /\ HashIdle /\ NormIdle
    /\ DigestIdle /\ FormIdle /\ RaceIdle
    /\ diaryAnalysisMonth = now
    /\ childAnalysisMonth = now
    /\ calendar = Some(diaryMonthDays)
    /\ childCalendar = Some(childMonthDays)

NextCalendar ==
    \/ \E step \in {-1, 1} : MoveDiaryMonth(step)
    \/ \E step \in {-1, 1} : MoveChildMonth(step)

SpecCalendar == InitCalendar /\ [][NextCalendar]_vars

(* The daily guidance over owners and dates *)

\* "2024-01-01", today and yesterday
FortuneDates == {<<50, 48, 50, 52, 45, 48, 49, 45, 48, 49>>} \cup JournalDates

\* "", "guest" and the owners
FortuneSeeds == {<<>>, Guest} \cup Owners

NextFortune ==
    \/ /\ \E date \in JournalDates : ChangeJournalDate(date)
       /\ UNCHANGED <<now, uid, userEmail, isGuestUser, guestSessionId, journalList, childList, statsVars, insightVars,
                      trendVars, calendarVars, digestVars, formVars, raceVars, fortuneVars, hashVars, normVars>>
    \/ /\ \E user \in {Null} \cup {Some(o) : o \in Owners} : AuthStateChanged(user)
       /\ UNCHANGED <<now, statsVars, insightVars, trendVars,
                      calendarVars, digestVars, formVars, raceVars, fortuneVars, hashVars, normVars>>
    \/ RenderDailyFortune
    \/ \E date \in FortuneDates : \E userSeed \in FortuneSeeds : PickFortune(date, userSeed)

SpecFortune == Init /\ [][NextFortune]_vars

(* hashText over drawn texts *)

\* longest text drawn for hashText
MaxHashLen == 5

\* code units of the drawn texts: the smallest, a letter, the largest
HashCodes == {0, Ch.a, Half - 1}

\* "2024-01-01:u1"
SeedText == <<50, 48, 50, 52, 45, 48, 49, 45, 48, 49, 58, 117, 49>>

HashInputs == SeqsUpTo(HashCodes, MaxHashLen) \cup {SeedText}

InitHash ==
    /\ now = ScenarioToday
    /\ SessionIdle
    /\ journalList = <<>>
    /\ childList = <<>>
    /\ StatsIdle /\ InsightsIdle /\ TrendIdle
    /\ CalendarIdle /\ FortuneIdle /\ NormIdle
    /\ DigestIdle /\ FormIdle /\ RaceIdle
    /\ hashPc = "loop"
    /\ hashValue \in HashInputs
    /\ hashI = 0
    /\ hash = [hi |-> 0, lo |-> 0]
    /\ hashWide = [top |-> 0, hi |-> 0, lo |-> 0]

NextHash == HashStep \/ HashReturn

SpecHash == InitHash /\ [][NextHash]_vars

(* scoreFromMood over pairs of ratings *)

\* ratings handed to scoreFromMood: the slider's range and beyond both ends
ScoreInputs == -4..15

InitScore ==
    /\ now = ScenarioToday
    /\ SessionIdle
    /\ journalList = <<>>
    /\ childList = <<>>
    /\ StatsIdle /\ InsightsIdle /\ TrendIdle
    /\ CalendarIdle /\ FortuneIdle /\ HashIdle
    /\ DigestIdle /\ FormIdle /\ RaceIdle
    /\ moodsIn \in ScoreInputs \X ScoreInputs
    /\ scoresOut = Null
    /\ valuesIn = <<>>
    /\ averageOut = Null

NextScore == ScoreMoods

SpecScore == InitScore /\ [][NextScore]_vars

(* averageMood over drawn lists *)

\* longest list handed to averageMood
MaxAverageLen == 3

\* values handed to averageMood: inside and on both sides of [1,10]
AverageInputs == {-2, 1, 4, 10, 13}

InitAverage ==
    /\ now = ScenarioToday
    /\ SessionIdle
    /\ journalList = <<>>
    /\ childList = <<>>
    /\ StatsIdle /\ InsightsIdle /\ TrendIdle
    /\ CalendarIdle /\ FortuneIdle /\ HashIdle
    /\ DigestIdle /\ FormIdle /\ RaceIdle
    /\ moodsIn = <<>>
    /\ scoresOut = Null
    /\ valuesIn \in SeqsUpTo(AverageInputs, MaxAverageLen)
    /\ averageOut = Null

NextAverage == AverageMoods

SpecAverage == InitAverage /\ [][NextAverage]_vars

-----------------------------------------------------------------------------
(* Properties of the weekly aggregates (SpecStats) *)

RECURSIVE SetSum(_, _)
\* the sum of f[k] over the k of the finite set K
SetSum(f, K) ==
    IF K = {} THEN 0
    ELSE LET k == CHOOSE x \in K : TRUE IN f[k] + SetSum(f, K \ {k})

HasRecordOn(list, key) == \E i \in 1..Len(list) : list[i].date = key

\* positions of the window days that have a record, among the positions K
DaysWithRecord(list, points, K) == {k \in K : HasRecordOn(list, points[k].date)}

\* the score of every window day, 0 standing in for a day without one
ScoreOrZero(points) ==
    [k \in 1..Len(points) |-> IF IsNull(points[k].score) THEN 0 ELSE Val(points[k].score)]

\* a is n / d rounded to the nearest integer
IsNearest(a, n, d) == -d <= 2 * d * a - 2 * n /\ 2 * d * a - 2 * n <= d

\* a is Math.round(n / d): the nearest integer, a half going up
IsMathRound(a, n, d) == 2 * d * a <= 2 * n + d /\ 2 * n + d < 2 * d * a + 2 * d

AverageHolds(list, memo) ==
    LET points == memo.points
        days == DaysWithRecord(list, points, 1..7)
        total == SetSum(ScoreOrZero(points), days)
    IN /\ IsNull(memo.stats.average) <=> days = {}
       /\ \A k \in 1..7 : IsNull(points[k].score) <=> k \notin days
       /\ memo.stats.daysWithEntry = Cardinality(days)
       /\ days # {} =>
             /\ Val(memo.stats.average) \in 0..100
             /\ IsNearest(Val(memo.stats.average), total, Cardinality(days))

\* C3: the window average is null iff no window day has a record; otherwise
\* it is an integer in [0,100], the rounded mean of the days' scores, and
\* daysWithEntry is the number of window days with a record.
C3_WindowAverage ==
    /\ ~IsNull(weekly) => AverageHolds(journalList, Val(weekly))
    /\ ~IsNull(childWeekly) => AverageHolds(childList, Val(childWeekly))

\* C3 witness: a computed child window with three recorded days and an
\* average that needed rounding (167 / 3)
C3_Witness ==
    /\ ~IsNull(childWeekly)
    /\ Val(childWeekly).stats.daysWithEntry = 3
    /\ Val(childWeekly).stats.average = Some(56)

DeltaHolds(list, memo) ==
    LET points == memo.points
        firstDays == DaysWithRecord(list, points, 1..3)
        secondDays == DaysWithRecord(list, points, 4..7)
        n1 == Cardinality(firstDays)
        n2 == Cardinality(secondDays)
        s1 == SetSum(ScoreOrZero(points), firstDays)
        s2 == SetSum(ScoreOrZero(points), secondDays)
    IN IF n1 > 0 /\ n2 > 0
       THEN IsMathRound(memo.stats.delta, s2 * n1 - s1 * n2, n1 * n2)
       ELSE memo.stats.delta = 0

\* C4: the 7-day list is split into its first 3 and last 4 days, each half
\* averaged over its own recorded days; delta is round(secondAvg - firstAvg)
\* when both halves have a record and 0 when either has none.
C4_TrendDelta ==
    /\ ~IsNull(weekly) => DeltaHolds(journalList, Val(weekly))
    /\ ~IsNull(childWeekly) => DeltaHolds(childList, Val(childWeekly))

\* C4 witness: both halves recorded and the difference of the averages is a
\* negative half (44.5 - 78 = -33.5, rounded to -33)
C4_Witness ==
    /\ ~IsNull(weekly)
    /\ DaysWithRecord(journalList, Val(weekly).points, 1..3) # {}
    /\ Cardinality(DaysWithRecord(journalList, Val(weekly).points, 4..7)) = 2
    /\ Val(weekly).stats.delta = -33

ThinHalf(list, memo, least) ==
    \/ Cardinality(DaysWithRecord(list, memo.points, 1..3)) < least
    \/ Cardinality(DaysWithRecord(list, memo.points, 4..7)) < least

\* C6 as stated: the trend is stable whenever a half of the window has fewer
\* than 2 days with data.
C6_StableWhenHalfBelowTwo ==
    /\ ~IsNull(weekly) /\ ThinHalf(journalList, Val(weekly), 2)
          => Val(weekly).stats.trend = "stable"
    /\ ~IsNull(childWeekly) /\ ThinHalf(childList, Val(childWeekly), 2)
          => Val(childWeekly).stats.trend = "stable"

\* C6 amended: the trend is stable (and delta is 0) whenever a half of the
\* window has no day with data.
C6_StableWhenHalfEmpty ==
    /\ ~IsNull(weekly) /\ ThinHalf(journalList, Val(weekly), 1)
          => Val(weekly).stats.trend = "stable" /\ Val(weekly).stats.delta = 0
    /\ ~IsNull(childWeekly) /\ ThinHalf(childList, Val(childWeekly), 1)
          => Val(childWeekly).stats.trend = "stable" /\ Val(childWeekly).stats.delta = 0

\* C6 witness: a computed window whose first half is empty while its second
\* half has recorded days
C6_Witness ==
    /\ ~IsNull(weekly)
    /\ DaysWithRecord(journalList, Val(weekly).points, 1..3) = {}
    /\ Cardinality(DaysWithRecord(journalList, Val(weekly).points, 4..7)) = 2

(* The end-to-end scenario: mood 8 on 2024-05-01, mood 2 on 2024-05-02 *)

\* "2024-04-26" .. "2024-05-02"
ScenarioKeys ==
    << <<50, 48, 50, 52, 45, 48, 52, 45, 50, 54>>,
       <<50, 48, 50, 52, 45, 48, 52, 45, 50, 55>>,
       <<50, 48, 50, 52, 45, 48, 52, 45, 50, 56>>,
       <<50, 48, 50, 52, 45, 48, 52, 45, 50, 57>>,
       <<50, 48, 50, 52, 45, 48, 52, 45, 51, 48>>,
       <<50, 48, 50, 52, 45, 48, 53, 45, 48, 49>>,
       <<50, 48, 50, 52, 45, 48, 53, 45, 48, 50>> >>

ScenarioComputed ==
    /\ now = [y |-> 2024, m |-> 4, d |-> 2]
    /\ Len(journalList) = 2
    /\ {<<journalList[i].date, journalList[i].mood>> : i \in 1..2}
          = {<<ScenarioKeys[6], 8>>, <<ScenarioKeys[7], 2>>}
    /\ ~IsNull(weekly)

ScenarioScores(points) ==
    /\ \A k \in 1..7 : points[k].date = ScenarioKeys[k]
    /\ \A k \in 1..5 : IsNull(points[k].score)
    /\ points[6].score = Some(78)
    /\ points[7].score = Some(11)

\* C7 as stated: in the scenario the day scores are 78 and 11, daysWithEntry
\* is 2 and the window average is 44.
C7_ScenarioAverage44 ==
    ScenarioComputed =>
        /\ ScenarioScores(Val(weekly).points)
        /\ Val(weekly).stats.daysWithEntry = 2
        /\ Val(weekly).stats.average = Some(44)

\* C7 amended: in the scenario the day scores are 78 and 11, daysWithEntry
\* is 2 and the window average is 45 (Math.round(44.5)).
C7_ScenarioAverage45 ==
    ScenarioComputed =>
        /\ ScenarioScores(Val(weekly).points)
        /\ Val(weekly).stats.daysWithEntry = 2
        /\ Val(weekly).stats.average = Some(45)

\* C7 witness: the scenario's records, listed in the order of the claim, with
\* the weekly aggregate computed
C7_Witness ==
    /\ ScenarioComputed
    /\ journalList[1].date = ScenarioKeys[6]

\* the recorded points among positions K, as (date, score) pairs
RecordedIn(points, K) ==
    {<<points[k].date, Val(points[k].score)>> : k \in {j \in K : ~IsNull(points[j].score)}}

\* C8 as stated: in the scenario the first half holds only the 2024-05-01
\* record (78), the second half only the 2024-05-02 record (11), delta is -67
\* and the trend is declining.
C8_ScenarioDeclining ==
    ScenarioComputed =>
        LET points == Val(weekly).points
        IN /\ RecordedIn(points, 1..3) = {<<ScenarioKeys[6], 78>>}
           /\ RecordedIn(points, 4..7) = {<<ScenarioKeys[7], 11>>}
           /\ Val(weekly).stats.delta = -67
           /\ Val(weekly).stats.trend = "declining"

\* C8 amended: in the scenario both records fall in the second half (the last
\* 4 days, 2024-04-29 .. 2024-05-02), the first half (2024-04-26 ..
\* 2024-04-28) has no record, delta is 0 and the trend is stable.
C8_ScenarioStable ==
    ScenarioComputed =>
        LET points == Val(weekly).points
        IN /\ \A k \in 1..7 : points[k].date = ScenarioKeys[k]
           /\ RecordedIn(points, 1..3) = {}
           /\ RecordedIn(points, 4..7) = {<<ScenarioKeys[6], 78>>, <<ScenarioKeys[7], 11>>}
           /\ Val(weekly).stats.delta = 0
           /\ Val(weekly).stats.trend = "stable"

\* C8 witness: the scenario's records in snapshot order (date descending),
\* with the weekly aggregate computed
C8_Witness ==
    /\ ScenarioComputed
    /\ journalList[1].date = ScenarioKeys[7]

-----------------------------------------------------------------------------
(* Properties of the trend classification (SpecTrend) *)

\* C5: for every integer delta in [-100,100] the label is improving iff
\* delta > 5, declining iff delta < -5 and stable otherwise; 5 and -5 are
\* both stable.
C5_TrendThresholds ==
    ~IsNull(trendOut) =>
        /\ Val(trendOut) \in {"improving", "declining", "stable"}
        /\ Val(trendOut) = "improving" <=> trendIn > 5
        /\ Val(trendOut) = "declining" <=> trendIn < -5
        /\ Val(trendOut) = "stable" <=> (-5 <= trendIn /\ trendIn <= 5)

\* C5 witness: the boundary delta 5 has been classified
C5_Witness == trendIn = 5 /\ trendOut = Some("stable")

-----------------------------------------------------------------------------
(* Properties of the prompt budget (Spec) *)

InjectionStep == lastOp'.op = "addReflectionPrompt" /\ lastOp'.injected

\* C1: a prompt is injected only when the stored count read for the date is
\* below 3, each injection raises the stored count by exactly 1, at most 3
\* prompts are injected per date and the stored count never exceeds 3; a call
\* at a stored count of 3 or more leaves the buffer and the stored count
\* unchanged and only reports exhaustion.
C1_PromptBudgetCeiling ==
    /\ \A d \in JournalDates :
          /\ getReflectionPromptUsage(d) <= REFLECTION_PROMPT_DAILY_LIMIT
          /\ injections[d] <= REFLECTION_PROMPT_DAILY_LIMIT
    /\ lastOp.injected =>
          /\ lastOp.used < REFLECTION_PROMPT_DAILY_LIMIT
          /\ getReflectionPromptUsage(journalDate) = lastOp.used + 1
    /\ lastOp.op = "addReflectionPrompt" /\ lastOp.used >= REFLECTION_PROMPT_DAILY_LIMIT =>
          /\ ~lastOp.injected
          /\ ~lastOp.wrote
          /\ getReflectionPromptUsage(journalDate) = lastOp.used
          /\ reflectionPromptMessage = ExhaustedMessage

\* C1 witness: three prompts were injected on the selected date and a fourth
\* call has reported exhaustion
C1_Witness ==
    /\ injections[journalDate] = 3
    /\ lastOp.op = "addReflectionPrompt"
    /\ ~lastOp.injected
    /\ reflectionPromptMessage = ExhaustedMessage

\* the used count a session of the given owner reads for a date from this
\* store: the storage key names the date only
BudgetSeenBy(owner, date) == getReflectionPromptUsage(date)

\* C2 as stated: a prompt injected by one owner on a date changes neither the
\* budget another owner sees for that date in the same store nor the count
\* of any other date.
C2_PerOwnerPerDate ==
    [][InjectionStep /\ ~IsNull(uid) =>
          /\ \A o \in Owners \ {Val(uid)} :
                BudgetSeenBy(o, journalDate)' = BudgetSeenBy(o, journalDate)
          /\ \A o \in Owners : \A d \in JournalDates \ {journalDate} :
                BudgetSeenBy(o, d)' = BudgetSeenBy(o, d)]_vars

-----------------------------------------------------------------------------
(* Properties of the streak (SpecInsights) *)

RecordedDates == {journalList[i].date : i \in 1..Len(journalList)}

\* the date key of the day n days before today
DaysAgo(n) == dateInputValue(addDays(now, -n))

InsightsDone == pc = "done" /\ ~IsNull(insights)

\* C9 as stated: records on today and the 3 preceding days and nothing
\* earlier give a streak of exactly 4; without the record of the day two
\* days before today the streak is capped at 1.
C9_GapCapsStreakAtOne ==
    InsightsDone =>
        /\ RecordedDates = {DaysAgo(0), DaysAgo(1), DaysAgo(2), DaysAgo(3)}
              => Val(insights).streak = 4
        /\ RecordedDates = {DaysAgo(0), DaysAgo(1), DaysAgo(3)}
              => Val(insights).streak <= 1

\* C9 amended: records on today and the 3 preceding days and nothing earlier
\* give a streak of exactly 4; without the record of the day two days before
\* today the streak is 2 (today and yesterday).
C9_GapCapsStreakAtTwo ==
    InsightsDone =>
        /\ RecordedDates = {DaysAgo(0), DaysAgo(1), DaysAgo(2), DaysAgo(3)}
              => Val(insights).streak = 4
        /\ RecordedDates = {DaysAgo(0), DaysAgo(1), DaysAgo(3)}
              => Val(insights).streak = 2

\* C9 witness: the insights of a record set with a gap two days back
C9_Witness ==
    /\ InsightsDone
    /\ RecordedDates = {DaysAgo(0), DaysAgo(1), DaysAgo(3)}

\* C10: the streak is the largest n such that today, today-1, ...,
\* today-(n-1) each have a record in the full record set; it is 0 whenever
\* today has no record.
C10_StreakIsLongestRun ==
    InsightsDone =>
        LET n == Val(insights).streak
        IN /\ n \in 0..Len(journalList)
           /\ \A k \in 0..(n - 1) : DaysAgo(k) \in RecordedDates
           /\ DaysAgo(n) \notin RecordedDates
           /\ DaysAgo(0) \notin RecordedDates => n = 0

\* C10 witness: today has no record while yesterday and the day before have
C10_Witness ==
    /\ InsightsDone
    /\ DaysAgo(0) \notin RecordedDates
    /\ {DaysAgo(1), DaysAgo(2)} \subseteq RecordedDates
    /\ Val(insights).streak = 0

-----------------------------------------------------------------------------
(* Properties of the extremum days (SpecInsights) *)

RecordedMoods == {journalList[i].mood : i \in 1..Len(journalList)}

\* the position of the first record of the list whose mood is m
FirstWithMood(list, m) ==
    CHOOSE i \in 1..Len(list) :
        list[i].mood = m /\ \A j \in 1..(i - 1) : list[j].mood # m

LeastOf(S) == CHOOSE x \in S : \A y \in S : x <= y
GreatestOf(S) == CHOOSE x \in S : \A y \in S : x >= y

\* C11: over the whole record list in its given order the toughest day is
\* the first record whose mood is the minimum and the strongest day the first
\* record whose mood is the maximum; for an empty list both are the none
\* sentinel and the streak is 0.
C11_ExtremumDays ==
    InsightsDone =>
        IF journalList = <<>>
        THEN Val(insights) = [streak |-> 0, toughestDay |-> NoDay, strongestDay |-> NoDay]
        ELSE /\ Val(insights).toughestDay
                    = DayText(journalList[FirstWithMood(journalList, LeastOf(RecordedMoods))])
             /\ Val(insights).strongestDay
                    = DayText(journalList[FirstWithMood(journalList,
                                                        GreatestOf(RecordedMoods))])

\* C11 witness: the minimum mood is met first at position 1 and again, on
\* another date, at position 3; the maximum first at position 2 and again at
\* position 4
C11_Witness ==
    /\ InsightsDone
    /\ Len(journalList) = 4
    /\ journalList[1].mood = 2 /\ journalList[3].mood = 2
    /\ journalList[2].mood = 8 /\ journalList[4].mood = 8
    /\ journalList[1].date # journalList[3].date
    /\ journalList[2].date # journalList[4].date
    /\ Val(insights).toughestDay = DayText(journalList[1])
    /\ Val(insights).strongestDay = DayText(journalList[2])

-----------------------------------------------------------------------------
(* Properties of the window points (SpecStats) *)

\* positions of the records of the list that carry the date key
PositionsOn(list, key) == {i \in 1..Len(list) : list[i].date = key}

\* C12: a window day's raw rating and score come from the record that comes
\* first in the record list among those of that date, whatever later records
\* of the same date hold; a day with no record has both null.
C12_FirstSeenWins ==
    /\ ~IsNull(weekly) =>
          \A k \in 1..7 :
             LET point == Val(weekly).points[k]
                 at == PositionsOn(journalList, point.date)
             IN IF at = {}
                THEN IsNull(point.mood) /\ IsNull(point.score)
                ELSE /\ point.mood = Some(journalList[LeastOf(at)].mood)
                     /\ point.score = Some(scoreFromMood(journalList[LeastOf(at)].mood))
    /\ ~IsNull(childWeekly) =>
          \A k \in 1..7 :
             LET point == Val(childWeekly).points[k]
                 at == PositionsOn(childList, point.date)
             IN IF at = {}
                THEN IsNull(point.progress) /\ IsNull(point.score)
                ELSE /\ point.progress = Some(childList[LeastOf(at)].progress)
                     /\ point.score = Some(scoreFromMood(childList[LeastOf(at)].progress))

\* C12 witness: today has three records, the first with mood 8 and the later
\* ones with mood 2, and today's point shows 8 / 78
C12_Witness ==
    /\ ~IsNull(weekly)
    /\ Len(journalList) = 3
    /\ \A i \in 1..3 : journalList[i].date = todayInputValue
    /\ journalList[1].mood = 8 /\ journalList[2].mood = 2 /\ journalList[3].mood = 2
    /\ Val(weekly).points[7].mood = Some(8)
    /\ Val(weekly).points[7].score = Some(78)

-----------------------------------------------------------------------------
(* Properties of the calendar grids (SpecCalendar) *)

\* the calendar's facts about the months shown: <<weekday of day 1 (0 is
\* Sunday), number of days>> of year y, month m (January is 0)
MonthShape(y, m) ==
    CASE <<y, m>> = <<2023, 11>> -> <<5, 31>>
      [] <<y, m>> = <<2024, 0>> -> <<1, 31>>
      [] <<y, m>> = <<2024, 1>> -> <<4, 29>>
      [] <<y, m>> = <<2024, 3>> -> <<1, 30>>
      [] <<y, m>> = <<2024, 4>> -> <<3, 31>>
      [] <<y, m>> = <<2024, 5>> -> <<6, 30>>
      [] <<y, m>> = <<2024, 11>> -> <<0, 31>>
      [] <<y, m>> = <<2025, 0>> -> <<3, 31>>
      [] <<y, m>> = <<2025, 1>> -> <<6, 28>>

IsBlankCell(cell) ==
    /\ cell.date = <<>>
    /\ cell.day = 0
    /\ ~cell.hasEntry
    /\ cell.heatTone = "none"
    /\ ~cell.isFuture

GridShapeHolds(shown, cells) ==
    LET K == MonthShape(shown.y, shown.m)[1]
        N == MonthShape(shown.y, shown.m)[2]
    IN /\ Len(cells) = K + N
       /\ \A i \in 1..K : IsBlankCell(cells[i])
       /\ \A d \in 1..N :
             /\ cells[K + d].day = d
             /\ cells[K + d].date = dateInputValue([y |-> shown.y, m |-> shown.m, d |-> d])

\* C13: for a month of N days whose day 1 falls on weekday K (0 = Sunday)
\* the grid is exactly K blank cells (empty date, day 0, no entry, tier none,
\* not future) followed by the N dated cells of days 1..N in order, whatever
\* the records are.
C13_GridShape ==
    /\ ~IsNull(calendar) => GridShapeHolds(diaryAnalysisMonth, Val(calendar))
    /\ ~IsNull(childCalendar) => GridShapeHolds(childAnalysisMonth, Val(childCalendar))

\* C13 witness: the diary calendar was moved to February 2025 (28 days,
\* day 1 a Saturday) and shows 6 blank cells before day 1, 34 cells in all
C13_Witness ==
    /\ diaryAnalysisMonth = [y |-> 2025, m |-> 1, d |-> 1]
    /\ journalList # <<>>
    /\ ~IsNull(calendar)
    /\ Len(Val(calendar)) = 34
    /\ IsBlankCell(Val(calendar)[6])
    /\ Val(calendar)[7].day = 1

\* the tier of a day whose n ratings sum to total, by their exact mean
TierOfMean(total, n) ==
    IF total >= 7 * n THEN "good"
    ELSE IF total >= 4 * n THEN "mid"
    ELSE "low"

\* the tier of a day by an integer average
TierOfAverage(average) ==
    IF average >= 7 THEN "good"
    ELSE IF average >= 4 THEN "mid"
    ELSE "low"

JournalRatings == [i \in 1..Len(journalList) |-> journalList[i].mood]
ChildRatings == [i \in 1..Len(childList) |-> childList[i].progress]

\* every rating brought into [1,10]
Clamped(ratings) ==
    [i \in DOMAIN ratings |->
        IF ratings[i] < 1 THEN 1 ELSE IF ratings[i] > 10 THEN 10 ELSE ratings[i]]

DatedCells(cells) == {i \in 1..Len(cells) : cells[i].day > 0}

\* presence and the none tier of the dated cells of a grid
PresenceHolds(list, cells) ==
    \A i \in DatedCells(cells) :
        /\ cells[i].hasEntry <=> PositionsOn(list, cells[i].date) # {}
        /\ cells[i].heatTone = "none" <=> PositionsOn(list, cells[i].date) = {}

\* the tier of every dated cell with a record follows the exact mean of
\* that date's ratings
MeanTierHolds(list, ratings, cells) ==
    \A i \in DatedCells(cells) :
        LET at == PositionsOn(list, cells[i].date)
        IN at # {} => cells[i].heatTone = TierOfMean(SetSum(ratings, at), Cardinality(at))

\* C14 as stated: a dated cell has presence iff a record has its date; its
\* tier is none iff no record has, and otherwise follows the average of that
\* date's ratings: strong (good) if >= 7, moderate (mid) if in [4,7), low
\* if < 4.
C14_TierFromMean ==
    /\ ~IsNull(calendar) =>
          /\ PresenceHolds(journalList, Val(calendar))
          /\ MeanTierHolds(journalList, JournalRatings, Val(calendar))
    /\ ~IsNull(childCalendar) =>
          /\ PresenceHolds(childList, Val(childCalendar))
          /\ MeanTierHolds(childList, ChildRatings, Val(childCalendar))

\* the tier of every dated cell with a record follows the mean of that
\* date's clamped ratings after rounding it to the nearest integer, a half
\* going up; average is the cell's average field
RoundedTierHolds(list, ratings, cells, average) ==
    \A i \in DatedCells(cells) :
        LET at == PositionsOn(list, cells[i].date)
        IN IF at = {} THEN IsNull(average[i])
           ELSE /\ ~IsNull(average[i])
                /\ Val(average[i]) \in 1..10
                /\ IsMathRound(Val(average[i]), SetSum(Clamped(ratings), at),
                               Cardinality(at))
                /\ cells[i].heatTone = TierOfAverage(Val(average[i]))

\* C14 amended: a dated cell has presence iff a record has its date; its
\* tier is none iff no record has, and otherwise follows the cell's average,
\* the mean of that date's ratings, each clamped to [1,10], rounded to the
\* nearest integer (a half going up): strong (good) if the rounded average
\* is >= 7, moderate (mid) if it is in [4,7), low if it is < 4.
C14_TierFromRoundedMean ==
    /\ ~IsNull(calendar) =>
          /\ PresenceHolds(journalList, Val(calendar))
          /\ RoundedTierHolds(journalList, JournalRatings, Val(calendar),
                              [i \in 1..Len(Val(calendar)) |-> Val(calendar)[i].avgMood])
    /\ ~IsNull(childCalendar) =>
          /\ PresenceHolds(childList, Val(childCalendar))
          /\ RoundedTierHolds(childList, ChildRatings, Val(childCalendar),
                              [i \in 1..Len(Val(childCalendar)) |->
                                  Val(childCalendar)[i].avgScore])

\* C14 witness: today (2024-05-02, cell 5 of May 2024) has the ratings 6 and
\* 7, mean 6.5, and after moving the calendar away and back to May its cell
\* shows the average 7 with the tier good
C14_Witness ==
    /\ now = ScenarioToday
    /\ diaryAnalysisMonth = [y |-> 2024, m |-> 4, d |-> 1]
    /\ Len(journalList) = 2
    /\ journalList[1].date = todayInputValue /\ journalList[1].mood = 6
    /\ journalList[2].date = todayInputValue /\ journalList[2].mood = 7
    /\ ~IsNull(calendar)
    /\ Val(calendar)[5].date = todayInputValue
    /\ Val(calendar)[5].avgMood = Some(7)
    /\ Val(calendar)[5].heatTone = "good"

\* the calendar day a is after the calendar day b
ChronoAfter(a, b) ==
    \/ a.y > b.y
    \/ a.y = b.y /\ a.m > b.m
    \/ a.y = b.y /\ a.m = b.m /\ a.d > b.d

\* the calendar day of the dated cell i of the grid of the month shown
CellDay(shown, cells, i) == [y |-> shown.y, m |-> shown.m, d |-> cells[i].day]

FutureHolds(shown, cells) ==
    \A i \in DatedCells(cells) :
        /\ cells[i].isFuture <=> ChronoAfter(CellDay(shown, cells, i), now)
        /\ cells[i].date = todayInputValue => ~cells[i].isFuture

\* the order of the date keys is the order of their days, for every day of
\* grid A against the first and the last day of grid B
KeyOrderHolds(shownA, cellsA, shownB, cellsB) ==
    \A i \in DatedCells(cellsA) :
        \A j \in {LeastOf(DatedCells(cellsB)), GreatestOf(DatedCells(cellsB))} :
            StrLess(cellsB[j].date, cellsA[i].date)
                <=> ChronoAfter(CellDay(shownA, cellsA, i), CellDay(shownB, cellsB, j))

\* C15: a cell is future iff its calendar day is strictly after today, so
\* today's own cell is not; the flag compares the zero-padded YYYY-MM-DD
\* keys as strings, and that order agrees with the order of the days.
C15_FutureFlag ==
    ~IsNull(calendar) /\ ~IsNull(childCalendar) =>
        /\ FutureHolds(diaryAnalysisMonth, Val(calendar))
        /\ FutureHolds(childAnalysisMonth, Val(childCalendar))
        /\ KeyOrderHolds(diaryAnalysisMonth, Val(calendar),
                         childAnalysisMonth, Val(childCalendar))

\* C15 witness: on 2024-05-02 the diary calendar was moved away and back to
\* May 2024; the cell of the 2nd is not future, those of the 3rd and of the
\* 10th are
C15_Witness ==
    /\ now = ScenarioToday
    /\ diaryAnalysisMonth = [y |-> 2024, m |-> 4, d |-> 1]
    /\ ~IsNull(calendar)
    /\ Val(calendar)[5].date = todayInputValue
    /\ ~Val(calendar)[5].isFuture
    /\ Val(calendar)[6].isFuture
    /\ Val(calendar)[13].day = 10
    /\ Val(calendar)[13].isFuture

-----------------------------------------------------------------------------
(* Properties of the stable hash (SpecHash) *)

\* arithmetic modulo 2^32 on [hi, lo] halves
Times(p, k) ==
    [hi |-> (p.hi * k + (p.lo * k) \div 65536) % 65536, lo |-> (p.lo * k) % 65536]

Plus(p, q) ==
    [hi |-> (p.hi + q.hi + (p.lo + q.lo) \div 65536) % 65536, lo |-> (p.lo + q.lo) % 65536]

\* p * c modulo 2^32 for a 16-bit c, by the two bytes of c
TimesCode(p, c) == Plus(Times(Times(p, c \div 256), 256), Times(p, c % 256))

RECURSIVE PowerOf31(_)
\* 31^k modulo 2^32
PowerOf31(k) == IF k = 0 THEN [hi |-> 0, lo |-> 1] ELSE Times(PowerOf31(k - 1), 31)

RECURSIVE PolySum(_, _)
\* the sum of text[i] * 31^(Len(text) - i) over i in 1..n, modulo 2^32
PolySum(text, n) ==
    IF n = 0 THEN [hi |-> 0, lo |-> 0]
    ELSE Plus(PolySum(text, n - 1), TimesCode(PowerOf31(Len(text) - n), text[n]))

\* C18: hashText(s) is the sum of c_i * 31^(n-1-i) modulo 2^32, reached by
\* the step h := (h * 31 + c) mod 2^32 from 0; it lies in [0, 2^32), the
\* empty text hashes to 0 and no h * 31 + c exceeds 2^53 (its part from
\* 2^32 up stays below 2^21). "2024-01-01:u1" hashes to 3025344982.
C18_StableHash ==
    /\ hash.hi \in 0..65535 /\ hash.lo \in 0..65535
    /\ hashWide.top < 2097152
    /\ hashI > 0 => hash = ToUint32(hashWide)
    /\ hashPc = "loop" =>
          hash = PolySum(SubSeq(hashValue, 1, hashI), hashI)
    /\ hashPc = "done" =>
          /\ hashI = Len(hashValue)
          /\ hash = PolySum(hashValue, Len(hashValue))
          /\ hash = hashText(hashValue)
          /\ hashValue = <<>> => hash = [hi |-> 0, lo |-> 0]
          /\ hashValue = SeedText => hash = [hi |-> 46163, lo |-> 6614]

\* C18 witness: a text of five code units 65535 has been hashed and the last
\* step went beyond 2^32 before it was wrapped
C18_Witness ==
    /\ hashPc = "done"
    /\ hashValue = <<65535, 65535, 65535, 65535, 65535>>
    /\ hashWide.top > 0

-----------------------------------------------------------------------------
(* Properties of the daily guidance (SpecFortune) *)

\* the catalog index the claim gives for a date and a non-empty owner key:
\* hash(date + ":" + owner) mod 8, the hash being the polynomial sum modulo
\* 2^32 (65536 is a multiple of 8, so only the low half counts)
IndexOf(date, owner) ==
    LET text == date \o <<58>> \o owner
    IN PolySum(text, Len(text)).lo % 8

\* the selections of the history made with a non-empty owner key
OwnedSelections ==
    {i \in 1..Len(fortuneLog) : fortuneLog[i].seed # <<>>}

\* C16: the guidance selected for (date, owner) depends on that pair only:
\* it is the catalog entry at index hash(date + ":" + owner) mod 8, a valid
\* index, so two selections for the same pair are the same entry; and the
\* owners u1 and u2 get different entries on the same date.
C16_DeterministicGuidance ==
    /\ Len(fortuneTemplates) = 8
    /\ \A i \in OwnedSelections :
          /\ IndexOf(fortuneLog[i].date, fortuneLog[i].seed) \in 0..7
          /\ fortuneLog[i].entry
                = fortuneTemplates[IndexOf(fortuneLog[i].date, fortuneLog[i].seed) + 1]
    /\ \A i, j \in 1..Len(fortuneLog) :
          /\ (fortuneLog[i].date = fortuneLog[j].date
                 /\ fortuneLog[i].seed = fortuneLog[j].seed)
                => fortuneLog[i].entry = fortuneLog[j].entry
          /\ (fortuneLog[i].date = fortuneLog[j].date
                 /\ fortuneLog[i].seed = <<117, 49>>
                 /\ fortuneLog[j].seed = <<117, 50>>)
                => fortuneLog[i].entry # fortuneLog[j].entry
    /\ \A i \in 1..Len(fortuneLog) :
          (fortuneLog[i].date = <<50, 48, 50, 52, 45, 48, 49, 45, 48, 49>>
              /\ fortuneLog[i].seed = <<117, 49>>)
             => fortuneLog[i].entry.id = "relationship-repair"

\* C16 witness: owner u1 is signed in and was shown the guidance of today,
\* after a call for ("2024-05-02", u2) that gave another entry
C16_Witness ==
    /\ uid = Some(<<117, 49>>)
    /\ journalDate = todayInputValue
    /\ Len(fortuneLog) = 2
    /\ fortuneLog[1].date = todayInputValue /\ fortuneLog[1].seed = <<117, 49>>
    /\ fortuneLog[2].date = todayInputValue /\ fortuneLog[2].seed = <<117, 50>>
    /\ fortune = Some(fortuneLog[1].entry)
    /\ fortuneLog[1].entry.id = "focus-window"
    /\ fortuneLog[2].entry.id = "relationship-soft"

\* C17: on every date a selection with the empty owner key (no owner signed
\* in) is the entry selected for the owner key "guest", and every selected
\* entry is a catalog entry with a non-empty id, advice, mission and prompt.
C17_GuestFallback ==
    /\ \A i \in 1..Len(fortuneLog) :
          /\ fortuneLog[i].seed = <<>> =>
                fortuneLog[i].entry
                   = fortuneTemplates[IndexOf(fortuneLog[i].date,
                                              <<103, 117, 101, 115, 116>>) + 1]
          /\ \E k \in 1..8 : fortuneLog[i].entry = fortuneTemplates[k]
          /\ fortuneLog[i].entry.id # ""
          /\ fortuneLog[i].entry.fortune > 0
          /\ fortuneLog[i].entry.mission > 0
          /\ fortuneLog[i].entry.prompt > 0
    /\ \A i, j \in 1..Len(fortuneLog) :
          (fortuneLog[i].date = fortuneLog[j].date
              /\ fortuneLog[i].seed = <<>>
              /\ fortuneLog[j].seed = <<103, 117, 101, 115, 116>>)
             => fortuneLog[i].entry = fortuneLog[j].entry
    /\ ~IsNull(fortune) => \E k \in 1..8 : Val(fortune) = fortuneTemplates[k]

\* C17 witness: nobody is signed in, the guidance of today was rendered with
\* the empty owner key, after a call for ("2024-05-02", "guest") that gave
\* the same entry
C17_Witness ==
    /\ IsNull(uid)
    /\ userEmail = <<>>
    /\ journalDate = todayInputValue
    /\ Len(fortuneLog) = 2
    /\ fortuneLog[1].date = todayInputValue /\ fortuneLog[1].seed = <<>>
    /\ fortuneLog[2].date = todayInputValue
    /\ fortuneLog[2].seed = <<103, 117, 101, 115, 116>>
    /\ fortune = Some(fortuneLog[1].entry)
    /\ fortuneLog[1].entry.id = "confidence-step"

-----------------------------------------------------------------------------
(* Properties of the scalar normalizers (SpecScore, SpecAverage) *)

\* v brought into [1,10]
ClampOf(v) == IF v < 1 THEN 1 ELSE IF v > 10 THEN 10 ELSE v

\* the scores of the ratings 1..10
ScoreTable == <<0, 11, 22, 33, 44, 56, 67, 78, 89, 100>>

\* C19: for every integer v, scoreFromMood(v) is an integer in [0,100], the
\* rounding of ((clamp(v,1,10) - 1) / 9) * 100; it never decreases as v
\* grows, is 0 at 1 and below and 100 at 10 and above.
C19_ScoreFromRating ==
    ~IsNull(scoresOut) =>
        /\ \A i \in 1..2 :
              LET v == moodsIn[i]
                  score == Val(scoresOut)[i]
              IN /\ score \in 0..100
                 /\ IsMathRound(score, 100 * (ClampOf(v) - 1), 9)
                 /\ score = ScoreTable[ClampOf(v)]
                 /\ v <= 1 => score = 0
                 /\ v >= 10 => score = 100
        /\ moodsIn[1] <= moodsIn[2] => Val(scoresOut)[1] <= Val(scoresOut)[2]

\* C19 witness: the ratings 0 and 11, outside the range on either side, were
\* scored 0 and 100
C19_Witness ==
    /\ moodsIn = <<0, 11>>
    /\ scoresOut = Some(<<0, 100>>)

\* the sum of the clamped values of a list
RECURSIVE ClampedTotal(_)
ClampedTotal(values) ==
    IF values = <<>> THEN 0 ELSE ClampOf(Head(values)) + ClampedTotal(Tail(values))

\* C20: for every list of integers averageMood returns an integer in [1,10],
\* the mean of the values each clamped to [1,10] rounded to the nearest
\* integer; for the empty list it returns 5.
C20_CompositeRating ==
    ~IsNull(averageOut) =>
        /\ Val(averageOut) \in 1..10
        /\ valuesIn = <<>> => Val(averageOut) = 5
        /\ valuesIn # <<>> =>
              IsNearest(Val(averageOut), ClampedTotal(valuesIn), Len(valuesIn))

\* C20 witness: the values -2 and 13 are clamped to 1 and 10 and their mean
\* 5.5 is returned as 6
C20_Witness ==
    /\ valuesIn = <<-2, 13>>
    /\ averageOut = Some(6)

-----------------------------------------------------------------------------
(* Properties of the prompt selection (SpecPrompt) *)

\* the catalog prompts the buffer does not contain
FreshPrompts(buffer) ==
    {i \in 1..Len(reflectionPromptPool) : ~Includes(buffer, reflectionPromptPool[i])}

\* C21: whenever a prompt is injected it is an entry of the catalog, and if
\* at least one catalog prompt is not contained in the buffer the injected
\* prompt is one the buffer does not contain; only a buffer containing every
\* catalog prompt gets a prompt it already contains.
C21_AvoidsRepeats ==
    [][InjectionStep =>
          /\ \E i \in 1..Len(reflectionPromptPool) :
                lastOp'.prompt = reflectionPromptPool[i]
          /\ FreshPrompts(reflection) # {} => ~Includes(reflection, lastOp'.prompt)
          /\ Includes(reflection, lastOp'.prompt) => FreshPrompts(reflection) = {}
          /\ reflection' = AppendPrompt(reflection, lastOp'.prompt)]_vars

\* C21 witness: the buffer held typed text with the first catalog prompt and
\* the second catalog prompt was injected after it
C21_Witness ==
    /\ lastOp.op = "addReflectionPrompt"
    /\ lastOp.injected
    /\ lastOp.prompt = reflectionPromptPool[2]
    /\ reflection = <<Ch.a, Ch.space>> \o reflectionPromptPool[1]
                       \o <<Ch.newline, Ch.newline>> \o reflectionPromptPool[2]
                       \o <<Ch.newline>>

\* the buffer held every catalog prompt and one of them was injected again
C21_FallbackReached ==
    /\ lastOp.injected
    /\ reflection = Flatten(reflectionPromptPool) \o <<Ch.newline, Ch.newline>>
                       \o reflectionPromptPool[1] \o <<Ch.newline>>

-----------------------------------------------------------------------------
(* Properties of the digest (SpecDigest) *)

\* the calendar day a date key names
KeyDay(key) ==
    [y |-> DigitsValue(SubSeq(key, 1, 4)),
     m |-> DigitsValue(SubSeq(key, 6, 7)) - 1,
     d |-> DigitsValue(SubSeq(key, 9, 10))]

\* the day a is not after the day b
NotAfter(a, b) == ~ChronoAfter(KeyDay(a), KeyDay(b))

\* the lines of a text: the pieces between its hard returns
RECURSIVE SplitLines(_)
SplitLines(text) ==
    IF \A i \in 1..Len(text) : text[i] # Ch.newline THEN <<text>>
    ELSE LET cut == CHOOSE i \in 1..Len(text) :
                       /\ text[i] = Ch.newline
                       /\ \A j \in 1..(i - 1) : text[j] # Ch.newline
         IN <<SubSeq(text, 1, cut - 1)>> \o SplitLines(SubSeq(text, cut + 1, Len(text)))

\* the lines of a digest: the empty digest has none
DigestLines(text) == IF text = <<>> THEN <<>> ELSE SplitLines(text)

\* a line that opens a record: a date key followed by the mood label
OpensRecord(line) ==
    /\ Len(line) >= 10 + Len(DigestText.mood)
    /\ SubSeq(line, 11, 10 + Len(DigestText.mood)) = DigestText.mood

\* the dates of the records of a digest, in the order of their lines
DigestDates(text) ==
    LET opening == SelectSeq(DigestLines(text), OpensRecord)
    IN [i \in 1..Len(opening) |-> SubSeq(opening[i], 1, 10)]

\* the positions of the records of the list whose date is in the window
InWindowPositions(list, bounds) ==
    {i \in 1..Len(list) :
        NotAfter(bounds.start, list[i].date) /\ NotAfter(list[i].date, bounds.end)}

\* the digest holds one record per in-window record of the list, date by date
DigestContentHolds(list, memo) ==
    LET dates == DigestDates(memo.text)
        inWindow == InWindowPositions(list, memo.bounds)
    IN /\ Len(dates) = Cardinality(inWindow)
       /\ \A i \in 1..Len(list) :
             Cardinality({k \in 1..Len(dates) : dates[k] = list[i].date})
               = Cardinality({j \in inWindow : list[j].date = list[i].date})

\* the records of the digest appear by date ascending
DigestAscending(memo) ==
    LET dates == DigestDates(memo.text)
    IN \A i \in 1..(Len(dates) - 1) : NotAfter(dates[i], dates[i + 1])

\* C22 as stated: the digest contains exactly the records whose date d
\* satisfies start <= d <= end, and its lines appear sorted by date ascending
\* whatever the order of the record list.
C22_DigestContentAndOrder ==
    ~IsNull(analysis) =>
        /\ DigestContentHolds(journalList, Val(analysis))
        /\ DigestAscending(Val(analysis))

\* the part of C22 the code keeps: the digest contains exactly the in-window
\* records, in the order of the record list
C22_DigestContentInListOrder ==
    ~IsNull(analysis) =>
        /\ DigestContentHolds(journalList, Val(analysis))
        /\ DigestDates(Val(analysis).text)
             = [i \in 1..Len(Val(analysis).entries) |-> Val(analysis).entries[i].date]

\* C23 as stated: the number of lines of the digest equals the number of
\* in-window records, also for records whose free text holds hard returns,
\* and the digest of an empty record list is the empty string.
C23_OneLinePerRecord ==
    ~IsNull(analysis) =>
        /\ Len(DigestLines(Val(analysis).text))
             = Cardinality(InWindowPositions(journalList, Val(analysis).bounds))
        /\ journalList = <<>> => Val(analysis).text = <<>>

\* the parts of C23 the code keeps: a digest of records without hard returns
\* has one line per in-window record, and the digest of an empty record list
\* is the empty string
C23_OneLinePerPlainRecord ==
    ~IsNull(analysis) =>
        /\ (\A i \in 1..Len(journalList) : ~Includes(journalList[i].reflection, <<Ch.newline>>))
              => Len(DigestLines(Val(analysis).text))
                   = Cardinality(InWindowPositions(journalList, Val(analysis).bounds))
        /\ journalList = <<>> => Val(analysis).text = <<>>

\* the text a medication record contributes to a line
AdherenceText(record) ==
    StatusText[record.status]
      \o (IF record.missedReason # <<>>
          THEN DigestText.missedReason \o record.missedReason
          ELSE <<>>)

\* the text of the digest that belongs to the in-window record at position k:
\* from its opening line up to the opening line of the next record
RecordText(text, k) ==
    LET lines == DigestLines(text)
        opens == {i \in 1..Len(lines) : OpensRecord(lines[i])}
        first == CHOOSE i \in opens : Cardinality({j \in opens : j < i}) = k - 1
        later == {i \in opens : i > first}
        last == IF later = {} THEN Len(lines)
                ELSE (CHOOSE i \in later : \A j \in later : i <= j) - 1
    IN Join(SubSeq(lines, first, last), <<Ch.newline>>)

\* C24: the status and reason of a record's medication sub-record appear in
\* its digest line if and only if all three health settings are true; when
\* one of them is false no line holds a medication field, whatever the
\* records hold; a record with no tags renders the none marker.
C24_FeatureGating ==
    ~IsNull(analysis) =>
        LET memo == Val(analysis)
            allOn == /\ healthSettings.enabled = TRUE
                     /\ healthSettings.medicationEnabled = TRUE
                     /\ healthSettings.consented = TRUE
        IN /\ ~allOn => ~Includes(memo.text, DigestText.meds)
           /\ \A k \in 1..Len(memo.entries) :
                 LET entry == memo.entries[k]
                     part == RecordText(memo.text, k)
                 IN /\ ~IsNull(entry.medicationRecord) =>
                          (allOn <=> Includes(part, DigestText.meds
                                       \o AdherenceText(Val(entry.medicationRecord))
                                       \o DigestText.reflection))
                    /\ (allOn /\ IsNull(entry.medicationRecord)) =>
                          Includes(part, DigestText.meds \o DigestText.noRecord)
                    /\ entry.emotions = <<>> =>
                          Includes(part, DigestText.emotions \o DigestText.none)
                    /\ entry.emotions # <<>> =>
                          ~Includes(part, DigestText.emotions \o DigestText.none)

\* C24 witness: with all three settings on, the digest shows the skipped
\* medication and its reason for a record without tags
C24_Witness ==
    /\ ~IsNull(analysis)
    /\ healthSettings = [enabled |-> TRUE, medicationEnabled |-> TRUE, consented |-> TRUE]
    /\ Len(Val(analysis).entries) = 2
    /\ Val(analysis).entries[1].emotions = <<>>
    /\ Includes(Val(analysis).text,
                DigestText.meds \o StatusText.skipped \o DigestText.missedReason
                  \o MissedReasonText)

\* two of the three settings are on and a record with a medication record
\* is in the window
C24_PartlyOnReached ==
    /\ ~IsNull(analysis)
    /\ healthSettings = [enabled |-> TRUE, medicationEnabled |-> TRUE, consented |-> FALSE]
    /\ \E k \in 1..Len(Val(analysis).entries) :
          ~IsNull(Val(analysis).entries[k].medicationRecord)

-----------------------------------------------------------------------------
(* Properties of the analysis window and of the trailing window (SpecWindow) *)

\* a date key: four digits, two digits and two digits, joined by dashes
IsDateKey(key) ==
    /\ Len(key) = 10
    /\ key[5] = Ch.dash /\ key[8] = Ch.dash
    /\ IsDigits(SubSeq(key, 1, 4)) /\ IsDigits(SubSeq(key, 6, 7))
    /\ IsDigits(SubSeq(key, 9, 10))

\* a <= b for the texts of the date inputs: the empty text is before every
\* date, dates are ordered by their calendar days
InputLeq(a, b) == a = <<>> \/ (b # <<>> /\ NotAfter(a, b))

EarlierOf(a, b) == IF InputLeq(a, b) THEN a ELSE b
LaterOf(a, b) == IF InputLeq(a, b) THEN b ELSE a

\* the bounds of every range kind are date keys with start <= end
BoundsOrdered(bounds) ==
    /\ IsDateKey(bounds.start) /\ IsDateKey(bounds.end)
    /\ NotAfter(bounds.start, bounds.end)

\* C25 as stated: for the custom range any pair of inputs a, b, reversed or
\* empty ones included, yields {start: min(a,b), end: max(a,b)}, and the
\* bounds of all three range kinds satisfy start <= end.
C25_BoundsAreMinMaxOfInputs ==
    ~IsNull(analysis) =>
        /\ diaryAnalysisRange = "custom" =>
              Val(analysis).bounds
                = [start |-> EarlierOf(diaryAnalysisStartDate, diaryAnalysisEndDate),
                   end |-> LaterOf(diaryAnalysisStartDate, diaryAnalysisEndDate)]
        /\ BoundsOrdered(Val(analysis).bounds)

\* C25 amended: for the custom range an empty start input stands for today
\* and an empty end input for the start so read; the bounds are the earlier
\* and the later of the two dates so read, whatever their order; and the
\* bounds of all three range kinds are dates with start <= end.
C25_BoundsAreMinMaxOfDefaultedInputs ==
    ~IsNull(analysis) =>
        /\ diaryAnalysisRange = "custom" =>
              LET a == IF diaryAnalysisStartDate = <<>> THEN todayInputValue
                       ELSE diaryAnalysisStartDate
                  b == IF diaryAnalysisEndDate = <<>> THEN a ELSE diaryAnalysisEndDate
              IN Val(analysis).bounds = [start |-> EarlierOf(a, b), end |-> LaterOf(a, b)]
        /\ BoundsOrdered(Val(analysis).bounds)

\* C25 witness: the custom range with the later date as start input and the
\* earlier as end input has the two swapped
C25_Witness ==
    /\ ~IsNull(analysis)
    /\ diaryAnalysisRange = "custom"
    /\ diaryAnalysisStartDate = dateInputValue(ScenarioToday)
    /\ diaryAnalysisEndDate = dateInputValue([y |-> 2023, m |-> 11, d |-> 26])
    /\ Val(analysis).bounds = [start |-> diaryAnalysisEndDate, end |-> diaryAnalysisStartDate]

\* the custom range with a cleared start input
C25_ClearedStartReached ==
    /\ ~IsNull(analysis)
    /\ diaryAnalysisRange = "custom"
    /\ diaryAnalysisStartDate = <<>>
    /\ diaryAnalysisEndDate # <<>>

\* days of the months of the years the model's todays fall in
MonthLength(y, m) ==
    IF m = 1 THEN (IF y = 2024 THEN 29 ELSE 28)
    ELSE IF m \in {3, 5, 8, 10} THEN 30
    ELSE 31

\* the calendar day after a calendar day
DayAfter(day) ==
    IF day.d < MonthLength(day.y, day.m) THEN [day EXCEPT !.d = day.d + 1]
    ELSE IF day.m < 11 THEN [y |-> day.y, m |-> day.m + 1, d |-> 1]
    ELSE [y |-> day.y + 1, m |-> 0, d |-> 1]

RECURSIVE DaysAfter(_, _)
DaysAfter(day, n) == IF n = 0 THEN day ELSE DaysAfter(DayAfter(day), n - 1)

\* C26: the weekly aggregate has exactly 7 points whose dates are today-6,
\* ..., today, each the calendar day after the one before it, across month
\* and year ends, whatever the record list; and the weekly analysis bounds
\* are start = today-6 and end = today, the same 7 days.
C26_TrailingWindow ==
    /\ ~IsNull(weekly) =>
          LET points == Val(weekly).points
          IN /\ Len(points) = 7
             /\ \A k \in 1..7 : IsDateKey(points[k].date)
             /\ KeyDay(points[7].date) = now
             /\ \A k \in 1..6 :
                   KeyDay(points[k + 1].date) = DayAfter(KeyDay(points[k].date))
             /\ ~IsNull(analysis) /\ diaryAnalysisRange = "weekly" =>
                   /\ Val(analysis).bounds.start = points[1].date
                   /\ Val(analysis).bounds.end = points[7].date
    /\ (~IsNull(analysis) /\ diaryAnalysisRange = "weekly") =>
          LET bounds == Val(analysis).bounds
          IN /\ IsDateKey(bounds.start) /\ IsDateKey(bounds.end)
             /\ KeyDay(bounds.end) = now
             /\ DaysAfter(KeyDay(bounds.start), 6) = now

\* C26 witness: on 2024-03-03 the weekly points start on 2024-02-26 and the
\* weekly bounds name the same days
C26_Witness ==
    /\ now = [y |-> 2024, m |-> 2, d |-> 3]
    /\ ~IsNull(weekly)
    /\ Val(weekly).points[1].date = <<50, 48, 50, 52, 45, 48, 50, 45, 50, 54>>
    /\ journalList # <<>>
    /\ ~IsNull(analysis) /\ diaryAnalysisRange = "weekly"
    /\ Val(analysis).bounds.start = Val(weekly).points[1].date

-----------------------------------------------------------------------------
(* Properties of the record lifetime (SpecForm) *)

\* the step in which the store settles an awaited call
RequestSettles == requests' # requests /\ requests' \subseteq requests

\* the call that step settles
Settled == CHOOSE r \in requests : r \notin requests'

\* the documents other than id are the same before and after the step
OthersKept(id) ==
    /\ DOMAIN journals' \ {id} = DOMAIN journals \ {id}
    /\ \A i \in DOMAIN journals \ {id} : journals'[i] = journals[i]

\* C27: a successful save outside edit mode adds exactly one new record; a
\* successful save in edit mode changes the fields of the record with the
\* edited identity and adds none; a confirmed delete removes exactly that
\* record and leaves edit mode if that record was being edited; a blocked
\* or failed save changes no record; and no other step, computing the
\* aggregates included, changes the records or the record list.
C27_RecordLifetime ==
    [][/\ (RequestSettles /\ saveStatus' = "saved") =>
             /\ IsNull(Settled.editing)
             /\ \E id \in DOMAIN journals' \ DOMAIN journals :
                   /\ DOMAIN journals' = DOMAIN journals \cup {id}
                   /\ journals'[id] = Settled.payload
                   /\ OthersKept(id)
       /\ (RequestSettles /\ saveStatus' = "updated") =>
             /\ ~IsNull(Settled.editing)
             /\ Val(Settled.editing) \in DOMAIN journals
             /\ DOMAIN journals' = DOMAIN journals
             /\ journals'[Val(Settled.editing)] = Settled.payload
             /\ OthersKept(Val(Settled.editing))
       /\ (RequestSettles /\ saveStatus' = "deleted") =>
             /\ DOMAIN journals' = DOMAIN journals \ {Val(Settled.id)}
             /\ OthersKept(Val(Settled.id))
             /\ Settled.editing = Settled.id => editingJournalId' = Null
       /\ saveStatus' \in {"signing-in", "guest-session", "empty", "save-failed"} =>
             journals' = journals
       /\ journals' # journals =>
             RequestSettles /\ saveStatus' \in {"saved", "updated", "deleted"}
       /\ weekly' # weekly => journals' = journals /\ journalList' = journalList
       /\ journalList' # journalList =>
             \/ journalList' = <<>>
             \/ journalList' = SnapshotOf(journals, FormOwner)]_vars

\* C27 witness: a save in edit mode has changed the text of the record 1 from
\* "a", which the record list still shows, to "b", and no record was added
C27_Witness ==
    /\ saveStatus = "updated"
    /\ DOMAIN journals = {1}
    /\ journals[1].reflection = <<Ch.a + 1>>
    /\ Len(journalList) = 1
    /\ journalList[1].id = 1
    /\ journalList[1].reflection = <<Ch.a>>
    /\ IsNull(editingJournalId)

\* a delete of the record being edited has left edit mode
C27_DeleteOfEditedReached ==
    /\ saveStatus = "deleted"
    /\ journals = <<>>
    /\ Len(journalList) = 1
    /\ IsNull(editingJournalId)
    /\ reflection = <<>>

\* a save was refused for want of a user, and one failed in the store
C27_BlockedReached == saveStatus = "signing-in" /\ journals = <<>>

C27_FailedReached == saveStatus = "save-failed" /\ journals # <<>>

-----------------------------------------------------------------------------
(* Properties of the budget under interleaving (SpecTabs) *)

\* C28: when two sessions share the store and each addReflectionPrompt is a
\* read of the date's count followed later by a write of read + 1, with no
\* retry and the last write winning, the stored count of every date stays
\* within 0..3 in every interleaving of the reads and writes.
C28_BudgetUnderInterleaving ==
    /\ \A date \in JournalDates :
          getReflectionPromptUsage(date) \in 0..REFLECTION_PROMPT_DAILY_LIMIT
    /\ \A key \in DOMAIN localStorage :
          /\ IsDigits(localStorage[key])
          /\ DigitsValue(localStorage[key]) \in 1..REFLECTION_PROMPT_DAILY_LIMIT
    /\ \A t \in Tabs :
          /\ tabs[t].wrote \in 0..REFLECTION_PROMPT_DAILY_LIMIT
          /\ tabs[t].pc = "read" => tabs[t].used < REFLECTION_PROMPT_DAILY_LIMIT

\* C28 witness: both sessions read 2 for today and both wrote 3: two
\* injections were counted as one and the stored count is still 3
C28_Witness ==
    /\ \A t \in Tabs :
          /\ tabs[t].pc = "idle"
          /\ tabs[t].date = todayInputValue
          /\ tabs[t].used = 2
          /\ tabs[t].wrote = 3
    /\ getReflectionPromptUsage(todayInputValue) = 3

-----------------------------------------------------------------------------
(* Properties of the displayed prompt budget (SpecBudget) *)

\* the count a stored text stands for: an unsigned run of digits is its
\* value; no text, a text that is no number and a negative number are 0
StoredCount(date) ==
    LET key == reflectionPromptUsageKey(date)
    IN IF key \in DOMAIN localStorage /\ IsDigits(localStorage[key])
       THEN DigitsValue(localStorage[key])
       ELSE 0

\* C29: in a single session, after every step of any sequence of journal-date
\* changes (entering and cancelling edit mode included) and
\* addReflectionPrompt calls, the displayed used count is the stored count of
\* the selected date, the displayed remaining count is max(0, 3 - used), and
\* the inject control is disabled exactly when used >= 3; a stored value that
\* is missing, non-numeric or negative counts as 0.
C29_DisplayedMatchesStored ==
    LET used == StoredCount(journalDate)
    IN /\ reflectionPromptCount = used
       /\ RemainingShown = (IF used >= 3 THEN 0 ELSE 3 - used)
       /\ InjectDisabled <=> used >= 3

\* C29 witness: the record of yesterday is being edited, yesterday's stored
\* "2" was read on entering edit mode, and one injection has brought the
\* displayed and the stored count to 3
C29_Witness ==
    /\ saveStatus = "editing"
    /\ journalDate = dateInputValue(DayBack(now, 1))
    /\ injections[journalDate] = 1
    /\ StoredCount(journalDate) = 3
    /\ InjectDisabled

\* edit mode was left by cancelJournalEdit after an injection on yesterday,
\* and today's stored text is no count
C29_CancelledReached ==
    /\ IsNull(editingJournalId)
    /\ journalDate = todayInputValue
    /\ injections[dateInputValue(DayBack(now, 1))] >= 1
    /\ reflectionPromptUsageKey(todayInputValue) \in DOMAIN localStorage
    /\ ~IsDigits(localStorage[reflectionPromptUsageKey(todayInputValue)])
    /\ reflectionPromptCount = 0

-----------------------------------------------------------------------------
(* Properties of the streak walk (SpecStreak) *)

\* C30: for every finite record set the backward walk from today ends after
\* finitely many steps, and the streak, during the walk and in the result, is
\* at most the number of distinct dates in the record set.
C30_StreakTerminates ==
    /\ <>InsightsDone
    /\ [](/\ streak <= Cardinality(RecordedDates)
          /\ InsightsDone => Val(insights).streak <= Cardinality(RecordedDates))

\* C30 witness: six records on today and the four days before it, two of
\* them on today; the walk has ended with a streak of 5, the number of
\* distinct dates
C30_Witness ==
    /\ InsightsDone
    /\ Len(journalList) = 6
    /\ Cardinality(RecordedDates) = 5
    /\ Val(insights).streak = 5

====
